---- MODULE Spec2Model ----
(***************************************************************************)
(* Model of acmeDeliver's server side: the connection registry (Hub), the  *)
(* per-connection session (readPump / writePump / HandleAuth) and the      *)
(* certificate broadcast path.                                             *)
(*                                                                         *)
(* Strings whose characters matter (domain names, subscription patterns)   *)
(* are sequences of one-character strings, so that matchWildcard is        *)
(* computed on characters exactly as the Go code computes it on bytes.     *)
(***************************************************************************)
EXTENDS Integers, Sequences, FiniteSets, TLC

\* ------------------------------------------------------------------------
\* Bounds and program constants
\* ------------------------------------------------------------------------

\* Capacity of a connection's mailbox.  The code allocates
\* make(chan *Message, 256); the model is parametric in the capacity and is
\* explored with a small one so that a full mailbox is reached.
SendCap == 2

\* Longest pattern / domain explored by the matcher specification.
MaxLen == 4

\* security.DefaultTimestampTolerance (seconds)
DefaultTimestampTolerance == 30

\* The server's wall clock (time.Now().Unix()) while the sessions run.
NowT == 100

\* Connections accepted by ServeWs.
Clients == {"c1", "c2"}

\* Characters of patterns and domains.
Chars == {"*", ".", "a"}

\* Domain names and patterns used by the sessions.
D_ab == <<"a", ".", "b">>          \* a.b
D_b == <<"b">>                     \* b
P_wild == <<"*", ".", "b">>        \* *.b
P_star == <<"*">>                  \* *

\* Domains whose certificates change (watcher callbacks).
Domains == {D_ab, D_b}

\* Pattern lists a peer may send in auth / subscribe messages.
DomainLists == { <<>>, <<D_ab>>, <<P_wild>>, <<D_ab, P_wild>>, <<D_ab, D_ab>>, <<P_star>> }

\* Shared secret configured on the server, and a secret a peer may guess.
Password == "secret"
Passwords == {"secret", "guess"}

\* Timestamps a peer may put into an auth message.
Timestamps == { NowT - DefaultTimestampTolerance - 1,
                NowT - DefaultTimestampTolerance,
                NowT,
                NowT + DefaultTimestampTolerance,
                NowT + DefaultTimestampTolerance + 1 }

NoClient == "nobody"

VARIABLES
    clients,        \* Hub.clients: the live set
    subscriptions,  \* Hub.subscriptions: pattern -> set of connections
    hubOp,          \* what Hub.Run has received and not yet applied
    mu,             \* Hub.mu: "free" or the connection holding it exclusively
    pc,             \* position of each connection's readPump
    wpc,            \* position of each connection's writePump
    conn,           \* each connection's transport
    authenticated,  \* Client.authenticated
    domains,        \* Client.domains
    send,           \* Client.send: the mailbox content
    closed,         \* number of close(client.send) executed
    lastReply,      \* last message the read loop wrote to the transport
    updNew,         \* argument of an UpdateSubscription in progress
    bpc,            \* position of BroadcastCert
    bDomain,        \* BroadcastCert's domain
    bTargets,       \* the subscribers slice GetSubscribers returned
    bSubs,          \* subscribers BroadcastCert has still to visit
    bSent,          \* BroadcastCert's sent counter
    bAccepted,      \* subscribers whose mailbox accepted this broadcast
    panicked,       \* the process died of a runtime panic
    noopFor,        \* connections unregisterClient found not to be live
    everRegistered, \* connections registerClient has been applied to
    everValid,      \* connections that sent an auth message with valid credentials
    lastAuth,       \* whether the last auth message handled had valid credentials
    updCommon,      \* domains matched by both sides of the last update
    bStars,         \* live connections subscribed to * when the broadcast resolved
    bCommon,        \* connections whose last update kept the broadcast's domain
    mPattern,       \* matcher specification: the pattern
    mDomain,        \* matcher specification: the domain
    mResult,        \* matcher specification: the result
    vSignature,     \* verifier specification: the signature presented
    vTimestamp,     \* verifier specification: the message's timestamp
    vResult,        \* verifier specification: what VerifySignature returned
    msgType,        \* msg.Type of the message handleMessage is dispatching
    cmu,            \* Client.mu: "free" or the goroutine holding it
    inWrite,        \* goroutines inside a write to the connection's transport
    rmsg,           \* the message sendMessage is writing (read loop)
    wmsg,           \* the message writePump received from the mailbox
    issued,         \* number of outbound messages issued for the connection
    wire,           \* the messages written to the transport, in write order
    store,          \* the certificate store: domain directory -> time.log value
    syncT,          \* req.Timestamps of the sync request being handled
    syncSent,       \* domains this sync request has pushed
    syncDropped,    \* domains this sync request found the mailbox full for
    fDir,           \* file specification: the names in a domain directory
    fRead,          \* file specification: the names readCertFiles returned
    fpc,            \* file specification: position
    clock,          \* watcher: the clock (time.Now()), in ticker periods
    dirs,           \* watcher: domain directory -> names of the files in it
    watched,        \* watcher: the paths added to the fsnotify watcher
    wState,         \* watcher: "new" after NewCertWatcher, "running" after Start
    wEvents,        \* watcher: the fsnotify Events channel
    pendingDomains, \* eventLoop's pendingDomains: domain -> time of last event
    lastUpdate,     \* CertWatcher.lastUpdate: domain -> time of last processing
    burstLast,      \* time of the last event handled for the domain
    burstCalls,     \* change callbacks for the domain since its burst began
    settled,        \* processPending has processed the domain's burst
    hadFiles,       \* the files the directory held when the burst was processed
    callAt,         \* time of the burst's change callback
    created,        \* directories whose create event handleEvent has handled
    stopChan,       \* w.stop, the channel Stop closes: open or closed
    fsClosed,       \* w.watcher.Close() has been called
    stopCalls,      \* calls of Stop made
    stopPanic,      \* a call of Stop has panicked
    depCfg,         \* ConfigDrivenDeployer.cfg, paths after replacePath
    depCerts,       \* the CertificateFiles handed to Deploy
    depDryRun,      \* Deploy's dryRun argument
    depFails,       \* the target paths the filesystem refuses to write
    depErr,         \* the error Deploy returned
    depFiles,       \* target path -> content written by Deploy
    depReloads,     \* executions of the reload command by Deploy
    pendingCmds,    \* ReloadDebouncer.pendingCmds
    rTimer,         \* ReloadDebouncer.timer: "none" (nil), "armed" or "fired"
    executing,      \* ReloadDebouncer.executing
    epc,            \* position of each goroutine running execute
    ecmds,          \* execute's local cmds still to run
    debt,           \* executions owed to each command
    rExtra,         \* a command was executed without being owed an execution
    kAttempt,       \* backoff: the attempt argument
    kBase,          \* backoff: the base argument, a 64-bit duration
    kDelay,         \* backoff: the result, <<>> before the call
    dpc,            \* Daemon.Run: position of the reconnect loop
    runAttempt,     \* Daemon.Run: attempt
    dconn,          \* d.conn: "nil", "open", "closed" (by the daemon), "broken"
    cancelled,      \* the context passed to Run is cancelled
    sessAuthed,     \* the session has received a successful auth_result
    hbAlive,        \* heartbeat goroutines that have not returned
    cuAlive,        \* handleConfigUpdates goroutines that have not returned
    hClock,         \* heartbeat: the clock, in half heartbeat intervals
    tickDue,        \* heartbeat: the ticker has fired and the tick is not handled yet
    lastPong,       \* d.lastPong
    missedPongs,    \* heartbeat's missedPongs
    hpc,            \* heartbeat: "run", "closed" (connection force-closed), "returned"
    hTicks,         \* the last ticks handled: time of the tick and lastPong at it
    pState,         \* handleCertPush: "idle" before the push, "done" after it
    pDomain,        \* the domain of the cert_push
    pSites,         \* d.config.Sites
    pSite,          \* the site findSiteConfig returned, NoSite if none or not called
    pWorkspace,     \* outcome of writing the bundle into the workspace
    pCopies,        \* per deploy attempt made, the target paths whose copy failed
    ackSuccess,     \* CertAck.Success of the acknowledgement sent
    ackMessage,     \* CertAck.Message of the acknowledgement sent
    subscribe,      \* d.config.Subscribe
    configUpdates,  \* d.configUpdates, the buffered channel of updates
    supplied,       \* the subscribe list of the latest UpdateConfig call
    nUpdates,       \* UpdateConfig calls made
    gpc,            \* where Run is: idle, dialed, auth, serve
    gconn,          \* d.conn: the number of the connection, 0 for nil
    gOpen,          \* the connection d.conn points to is open
    authReq,        \* AuthRequest.Domains of the request authenticate built
    consumers,      \* per connection, the handleConfigUpdates goroutine it started
    gwire,          \* messages written to the connection, not yet handled
    peerAuthed,     \* Client.authenticated of the server's session
    peerDomains,    \* the pattern set of the server's session
    cStamp,         \* the store's timestamp of the subscribed domain
    cLocal,         \* the timestamp of the bundle in the daemon's workspace
    cLink,          \* the daemon's connection: down, authing, up
    cInbox,         \* pushes enqueued for the daemon, not yet handled by it
    cMissed,        \* the latest timestamp finalized while no session was up
    statusOut       \* what the last GetClientStatus returned

hubVars == <<clients, subscriptions, hubOp, mu>>
sessVars == <<pc, wpc, conn, authenticated, domains, send, closed, lastReply, updNew>>
bcVars == <<bpc, bDomain, bTargets, bSubs, bSent, bAccepted>>
ghostVars == <<noopFor, everRegistered, everValid, lastAuth, updCommon, bStars, bCommon>>
statusVars == <<statusOut>>
matchVars == <<mPattern, mDomain, mResult>>
verifyVars == <<vSignature, vTimestamp, vResult>>
msgVars == <<msgType>>
wireVars == <<cmu, inWrite, rmsg, wmsg, issued, wire>>
syncVars == <<store, syncT, syncSent, syncDropped>>
fileVars == <<fDir, fRead, fpc>>
deployVars == <<depCfg, depCerts, depDryRun, depFails, depErr, depFiles, depReloads>>
watchVars == <<clock, dirs, watched, wState, wEvents, pendingDomains, lastUpdate,
               burstLast, burstCalls, settled, hadFiles, callAt, created,
               stopChan, fsClosed, stopCalls, stopPanic>>
reloadVars == <<pendingCmds, rTimer, executing, epc, ecmds, debt, rExtra>>
backoffVars == <<kAttempt, kBase, kDelay>>
runVars == <<dpc, runAttempt, dconn, cancelled, sessAuthed, hbAlive, cuAlive>>
heartVars == <<hClock, tickDue, lastPong, missedPongs, hpc, hTicks>>
pushVars == <<pState, pDomain, pSites, pSite, pWorkspace, pCopies, ackSuccess, ackMessage>>
configVars == <<subscribe, configUpdates, supplied, nUpdates, gpc, gconn, gOpen,
                authReq, consumers, gwire, peerAuthed, peerDomains>>
catchVars == <<cStamp, cLocal, cLink, cInbox, cMissed>>
daemonVars == <<backoffVars, runVars, heartVars, pushVars, configVars, catchVars>>
sideVars == <<statusVars, matchVars, verifyVars, fileVars, deployVars, watchVars, reloadVars, daemonVars>>
sessionVars == <<msgVars, wireVars, syncVars>>
compVars == <<sideVars, sessionVars>>
serverVars == <<hubVars, sessVars, bcVars, panicked, ghostVars>>
vars == <<serverVars, compVars>>

\* ------------------------------------------------------------------------
\* Pure functions
\* ------------------------------------------------------------------------

\* matchWildcard with the length test off by one (< for <=): a domain as long
\* as the suffix is compared too
matchWildcardOffByOne(pattern, domain) ==
    IF Len(pattern) < 2 \/ pattern[1] # "*" \/ pattern[2] # "."
    THEN FALSE
    ELSE LET suffix == SubSeq(pattern, 2, Len(pattern))
         IN  IF Len(domain) < Len(suffix)
             THEN FALSE
             ELSE SubSeq(domain, Len(domain) - Len(suffix) + 1, Len(domain)) = suffix

\* matchWildcard(pattern, domain)
matchWildcard(pattern, domain) ==
    IF Len(pattern) < 2 \/ pattern[1] # "*" \/ pattern[2] # "."
    THEN FALSE
    ELSE LET suffix == SubSeq(pattern, 2, Len(pattern))
         IN  IF Len(domain) <= Len(suffix)
             THEN FALSE
             ELSE SubSeq(domain, Len(domain) - Len(suffix) + 1, Len(domain)) = suffix

\* The lookup GetSubscribers performs on a subscription map.
SubscribersOf(subs, domain) ==
    (IF domain \in DOMAIN subs THEN subs[domain] ELSE {})
    \cup UNION { subs[p] : p \in { q \in DOMAIN subs : matchWildcard(q, domain) } }

\* Hub.GetSubscribers(domain), evaluated under the read lock
GetSubscribers(domain) == SubscribersOf(subscriptions, domain)

\* delete(subs, client); if len(subs) == 0 { delete(h.subscriptions, domain) }
RemoveOne(subs, c, p) ==
    IF p \in DOMAIN subs
    THEN IF subs[p] \ {c} = {}
         THEN [q \in DOMAIN subs \ {p} |-> subs[q]]
         ELSE [q \in DOMAIN subs |-> IF q = p THEN subs[q] \ {c} ELSE subs[q]]
    ELSE subs

\* for _, domain := range client.domains { ... delete ... }
RECURSIVE RemoveFromIndex(_, _, _)
RemoveFromIndex(subs, c, doms) ==
    IF doms = <<>> THEN subs
    ELSE RemoveFromIndex(RemoveOne(subs, c, Head(doms)), c, Tail(doms))

\* h.subscriptions[domain][client] = true (creating the entry when nil)
AddOne(subs, c, p) ==
    [q \in DOMAIN subs \cup {p} |->
        IF q = p
        THEN (IF p \in DOMAIN subs THEN subs[p] ELSE {}) \cup {c}
        ELSE subs[q]]

\* for _, domain := range client.domains { ... add ... }
RECURSIVE AddToIndex(_, _, _)
AddToIndex(subs, c, doms) ==
    IF doms = <<>> THEN subs
    ELSE AddToIndex(AddOne(subs, c, Head(doms)), c, Tail(doms))

\* GenerateSignature: sha256(password + timestamp), a collision-free digest
GenerateSignature(password, timestamp) == <<password, timestamp>>

\* VerifySignature without the test for timestamps in the future
VerifySignatureNoUpperBound(signature, timestamp, now) ==
    IF timestamp < now - DefaultTimestampTolerance
    THEN "expired"
    ELSE IF signature # GenerateSignature(Password, timestamp)
         THEN "badsig"
         ELSE "ok"

\* VerifySignature rejecting the timestamps at the two ends of the window
VerifySignatureExclusive(signature, timestamp, now) ==
    IF timestamp <= now - DefaultTimestampTolerance
       \/ timestamp >= now + DefaultTimestampTolerance
    THEN "expired"
    ELSE IF signature # GenerateSignature(Password, timestamp)
         THEN "badsig"
         ELSE "ok"

\* VerifySignature(signature, timestamp) at wall-clock time now:
\* "ok", "expired" or "badsig"
VerifySignature(signature, timestamp, now) ==
    IF timestamp < now - DefaultTimestampTolerance
       \/ timestamp > now + DefaultTimestampTolerance
    THEN "expired"
    ELSE IF signature # GenerateSignature(Password, timestamp)
         THEN "badsig"
         ELSE "ok"

\* Set of the elements of a sequence.
Range(s) == { s[i] : i \in 1..Len(s) }

\* Some pattern of the list matches the domain (exactly or as a wildcard).
MatchAny(doms, d) == \E p \in Range(doms) : p = d \/ matchWildcard(p, d)

\* ------------------------------------------------------------------------
\* Initial state: NewHub(), no connection accepted yet
\* ------------------------------------------------------------------------

Idle == [op |-> "idle", c |-> NoClient]

\* NewHub
NewHub ==
    /\ clients = {}
    /\ subscriptions = <<>>
    /\ hubOp = Idle
    /\ mu = "free"
    /\ noopFor = {}

\* No connection has been accepted; NewClient has not run.
NoSessions ==
    /\ pc = [c \in Clients |-> "none"]
    /\ wpc = [c \in Clients |-> "none"]
    /\ conn = [c \in Clients |-> "none"]
    /\ authenticated = [c \in Clients |-> FALSE]
    /\ domains = [c \in Clients |-> <<>>]
    /\ send = [c \in Clients |-> <<>>]
    /\ closed = [c \in Clients |-> 0]
    /\ lastReply = [c \in Clients |-> "none"]
    /\ updNew = [c \in Clients |-> <<>>]
    /\ everRegistered = {}
    /\ everValid = {}
    /\ lastAuth = [c \in Clients |-> "none"]
    /\ updCommon = [c \in Clients |-> {}]

\* No certificate change is being broadcast.
NoBroadcast ==
    /\ bpc = "idle"
    /\ bDomain = <<>>
    /\ bTargets = {}
    /\ bSubs = {}
    /\ bSent = 0
    /\ bAccepted = {}
    /\ bStars = {}
    /\ bCommon = {}

\* The matcher specification is not running.
NoMatch ==
    /\ mPattern = <<>>
    /\ mDomain = <<>>
    /\ mResult = "unused"

\* The verifier specification is not running.
NoVerify ==
    /\ vSignature = <<>>
    /\ vTimestamp = 0
    /\ vResult = "unused"

\* NewClient: Client.mu unlocked; nothing issued, nothing written.
NoWrites ==
    /\ cmu = [c \in Clients |-> "free"]
    /\ inWrite = [c \in Clients |-> {}]
    /\ rmsg = [c \in Clients |-> 0]
    /\ wmsg = [c \in Clients |-> 0]
    /\ issued = [c \in Clients |-> 0]
    /\ wire = [c \in Clients |-> <<>>]

\* The server after NewServer: a hub, no connection, no broadcast.
ServerInit ==
    /\ NewHub
    /\ statusOut = <<>>
    /\ NoSessions
    /\ NoBroadcast
    /\ panicked = "none"
    /\ msgType = [c \in Clients |-> "none"]
    /\ NoWrites

\* No sync request is being handled.
NoSyncRequest ==
    /\ syncT = <<>>
    /\ syncSent = {}
    /\ syncDropped = {}

\* An empty certificate store, and no sync request.
NoSync ==
    /\ store = <<>>
    /\ NoSyncRequest

\* The file specification is not running.
NoFiles ==
    /\ fDir = {}
    /\ fRead = {}
    /\ fpc = "unused"

\* No deployer has been created.
NoDeploy ==
    /\ depCfg = <<>>
    /\ depCerts = <<>>
    /\ depDryRun = FALSE
    /\ depFails = {}
    /\ depErr = <<"unset">>
    /\ depFiles = <<>>
    /\ depReloads = 0

\* No watcher has been created.
NoWatcher ==
    /\ clock = 0
    /\ dirs = <<>>
    /\ watched = {}
    /\ wState = "unused"
    /\ wEvents = <<>>
    /\ pendingDomains = <<>>
    /\ lastUpdate = <<>>
    /\ burstLast = <<>>
    /\ burstCalls = <<>>
    /\ settled = {}
    /\ hadFiles = {}
    /\ callAt = <<>>
    /\ created = {}
    /\ stopChan = "open"
    /\ fsClosed = FALSE
    /\ stopCalls = 0
    /\ stopPanic = FALSE

\* No reload debouncer has been created.
NoReload ==
    /\ pendingCmds = {}
    /\ rTimer = "unused"
    /\ executing = FALSE
    /\ epc = <<>>
    /\ ecmds = <<>>
    /\ debt = <<>>
    /\ rExtra = FALSE

\* backoff is not being called.
NoBackoff ==
    /\ kAttempt = 0
    /\ kBase = <<>>
    /\ kDelay = <<>>

\* Daemon.Run has not been called.
NoRun ==
    /\ dpc = "unused"
    /\ runAttempt = 0
    /\ dconn = "nil"
    /\ cancelled = FALSE
    /\ sessAuthed = FALSE
    /\ hbAlive = 0
    /\ cuAlive = 0

\* No heartbeat goroutine has been started.
NoHeartbeat ==
    /\ hClock = 0
    /\ tickDue = FALSE
    /\ lastPong = 0
    /\ missedPongs = 0
    /\ hpc = "unused"
    /\ hTicks = <<>>

\* The value of a site pointer that is nil.
NoSite == [domain |-> <<>>, paths |-> {}, reloadCmd |-> ""]

\* No cert_push is being handled.
NoPush ==
    /\ pState = "unused"
    /\ pDomain = <<>>
    /\ pSites = <<>>
    /\ pSite = NoSite
    /\ pWorkspace = "none"
    /\ pCopies = <<>>
    /\ ackSuccess = FALSE
    /\ ackMessage = ""

\* No configuration update is being followed.
NoConfig ==
    /\ subscribe = <<>>
    /\ configUpdates = <<>>
    /\ supplied = <<>>
    /\ nUpdates = 0
    /\ gpc = "unused"
    /\ gconn = 0
    /\ gOpen = FALSE
    /\ authReq = <<>>
    /\ consumers = <<>>
    /\ gwire = <<>>
    /\ peerAuthed = FALSE
    /\ peerDomains = {}

\* No catch-up after a reconnect is being followed.
NoCatchUp ==
    /\ cStamp = 0
    /\ cLocal = 0
    /\ cLink = "unused"
    /\ cInbox = <<>>
    /\ cMissed = 0

\* No client daemon has been created.
NoDaemon ==
    /\ NoBackoff
    /\ NoRun
    /\ NoHeartbeat
    /\ NoPush
    /\ NoConfig
    /\ NoCatchUp

Init ==
    /\ ServerInit
    /\ NoMatch
    /\ NoVerify
    /\ NoSync
    /\ NoFiles
    /\ NoDeploy
    /\ NoWatcher
    /\ NoReload
    /\ NoDaemon

\* ------------------------------------------------------------------------
\* Hub
\* ------------------------------------------------------------------------

\* h.mu can be taken (no exclusive holder)
LockFree == mu = "free"

\* GetSubscribers reading the index without taking the lock
RLockIgnored == TRUE

\* h.mu.RLock() in GetSubscribers succeeds: no writer holds the lock
RLockFree == mu = "free"

\* unregisterClient without its guard
IsLiveUnchecked(c) == TRUE

\* the guard of unregisterClient: _, ok := h.clients[client]
IsLive(c) == c \in clients

\* registerClient(client), under h.mu
registerClient(c) ==
    /\ clients' = clients \cup {c}
    /\ subscriptions' = AddToIndex(subscriptions, c, domains[c])
    /\ everRegistered' = everRegistered \cup {c}
    /\ UNCHANGED <<closed, panicked, updCommon, noopFor>>

\* unregisterClient(client), under h.mu
unregisterClient(c) ==
    IF ~IsLive(c)
    THEN /\ noopFor' = noopFor \cup {c}
         /\ UNCHANGED <<clients, subscriptions, closed, panicked, everRegistered, updCommon>>
    ELSE /\ subscriptions' = RemoveFromIndex(subscriptions, c, domains[c])
         /\ clients' = clients \ {c}
         /\ updCommon' = [updCommon EXCEPT ![c] = {}]
         /\ UNCHANGED noopFor
         /\ IF closed[c] > 0
            THEN /\ panicked' = "close of closed channel"
                 /\ UNCHANGED closed
            ELSE /\ closed' = [closed EXCEPT ![c] = 1]
                 /\ UNCHANGED panicked
         /\ UNCHANGED everRegistered

\* One iteration of Hub.Run after the receive: apply the received client.
HubApply ==
    /\ hubOp.op # "idle"
    /\ LockFree
    /\ \/ /\ hubOp.op = "register"
          /\ registerClient(hubOp.c)
       \/ /\ hubOp.op = "unregister"
          /\ unregisterClient(hubOp.c)
    /\ hubOp' = Idle
    /\ UNCHANGED <<mu, pc, wpc, conn, authenticated, domains, send, lastReply, updNew>>
    /\ UNCHANGED <<bcVars, everValid, lastAuth, bStars, bCommon, compVars>>

\* ------------------------------------------------------------------------
\* Session: ServeWs, readPump, HandleAuth, subscribe
\* ------------------------------------------------------------------------

\* ServeWs: upgrade, NewClient, go writePump, go readPump
ServeWs(c) ==
    /\ pc[c] = "none"
    /\ pc' = [pc EXCEPT ![c] = "read"]
    /\ wpc' = [wpc EXCEPT ![c] = "run"]
    /\ conn' = [conn EXCEPT ![c] = "open"]
    /\ send' = [send EXCEPT ![c] = <<>>]
    /\ UNCHANGED <<hubVars, authenticated, domains, closed, lastReply, updNew>>
    /\ UNCHANGED <<bcVars, panicked, ghostVars, compVars>>

\* readPump has read a message from the transport
Reading(c) == pc[c] = "read" /\ conn[c] = "open"

\* What the peer put in a well-formed auth message is acceptable.
ValidCredentials(pw, ts) ==
    /\ pw = Password
    /\ ts >= NowT - DefaultTimestampTolerance
    /\ ts <= NowT + DefaultTimestampTolerance

\* HandleAuth on an auth message whose data does not parse
HandleAuthMalformed(c) ==
    /\ Reading(c)
    /\ lastReply' = [lastReply EXCEPT ![c] = "auth_result_false"]
    /\ lastAuth' = [lastAuth EXCEPT ![c] = "invalid"]
    /\ UNCHANGED <<hubVars, pc, wpc, conn, authenticated, domains, send, closed, updNew>>
    /\ UNCHANGED <<bcVars, panicked, noopFor, everRegistered, everValid, updCommon,
                   bStars, bCommon, compVars>>

\* HandleAuth on a parsed auth message signed with pw for timestamp ts and
\* carrying the domain list doms, up to the call of hub.Register
HandleAuth(c, pw, ts, doms) ==
    /\ Reading(c)
    /\ lastAuth' = [lastAuth EXCEPT ![c] =
                        IF ValidCredentials(pw, ts) THEN "valid" ELSE "invalid"]
    /\ everValid' = IF ValidCredentials(pw, ts) THEN everValid \cup {c} ELSE everValid
    /\ IF VerifySignature(GenerateSignature(pw, ts), ts, NowT) # "ok"
       THEN /\ lastReply' = [lastReply EXCEPT ![c] = "auth_result_false"]
            /\ UNCHANGED <<pc, authenticated, domains>>
       ELSE /\ domains' = [domains EXCEPT ![c] = doms]
            /\ authenticated' = [authenticated EXCEPT ![c] = TRUE]
            /\ pc' = [pc EXCEPT ![c] = "register"]
            /\ UNCHANGED lastReply
    /\ UNCHANGED <<hubVars, wpc, conn, send, closed, updNew>>
    /\ UNCHANGED <<bcVars, panicked, noopFor, everRegistered, updCommon,
                   bStars, bCommon, compVars>>

\* hub.Register(client): the hub loop receives the client; then
\* sendAuthResult(true, ...)
Register(c) ==
    /\ pc[c] = "register"
    /\ hubOp = Idle
    /\ hubOp' = [op |-> "register", c |-> c]
    /\ lastReply' = [lastReply EXCEPT ![c] = "auth_result_true"]
    /\ pc' = [pc EXCEPT ![c] = "read"]
    /\ UNCHANGED <<clients, subscriptions, mu, wpc, conn, authenticated, domains,
                   send, closed, updNew>>
    /\ UNCHANGED <<bcVars, panicked, ghostVars, compVars>>

\* UpdateSubscription, first half: h.mu.Lock() and the removal of the old
\* patterns
UpdateSubscriptionBegin(c, newDomains) ==
    /\ Reading(c)
    /\ authenticated[c]
    /\ LockFree
    /\ mu' = c
    /\ subscriptions' = RemoveFromIndex(subscriptions, c, domains[c])
    /\ updNew' = [updNew EXCEPT ![c] = newDomains]
    /\ updCommon' = [updCommon EXCEPT ![c] =
                        { d \in Domains : MatchAny(domains[c], d) /\ MatchAny(newDomains, d) }]
    /\ pc' = [pc EXCEPT ![c] = "upd"]
    /\ UNCHANGED <<clients, hubOp, wpc, conn, authenticated, domains, send, closed, lastReply>>
    /\ UNCHANGED <<bcVars, panicked, noopFor, everRegistered, everValid, lastAuth,
                   bStars, bCommon, compVars>>

\* UpdateSubscription, second half: client.domains = newDomains, the
\* insertion of the new patterns and h.mu.Unlock()
UpdateSubscriptionEnd(c) ==
    /\ pc[c] = "upd"
    /\ mu = c
    /\ domains' = [domains EXCEPT ![c] = updNew[c]]
    /\ subscriptions' = AddToIndex(subscriptions, c, updNew[c])
    /\ updNew' = [updNew EXCEPT ![c] = <<>>]
    /\ mu' = "free"
    /\ pc' = [pc EXCEPT ![c] = "read"]
    /\ UNCHANGED <<clients, hubOp, wpc, conn, authenticated, send, closed, lastReply>>
    /\ UNCHANGED <<bcVars, panicked, ghostVars, compVars>>

\* readPump whose deferred function closes the transport without
\* deregistering
ReadErrorSkipsUnregister(c) ==
    /\ pc[c] = "read"
    /\ pc' = [pc EXCEPT ![c] = "done"]
    /\ conn' = [conn EXCEPT ![c] = "closed"]
    /\ UNCHANGED <<hubVars, wpc, authenticated, domains, send, closed, lastReply, updNew>>
    /\ UNCHANGED <<bcVars, panicked, ghostVars, compVars>>

\* readPump: ReadMessage returns an error (peer closed, network error, or the
\* transport was closed by writePump); the deferred function starts
ReadError(c) ==
    /\ pc[c] = "read"
    /\ IF authenticated[c]
       THEN /\ pc' = [pc EXCEPT ![c] = "unregister"]
            /\ UNCHANGED conn
       ELSE /\ pc' = [pc EXCEPT ![c] = "done"]
            /\ conn' = [conn EXCEPT ![c] = "closed"]
    /\ UNCHANGED <<hubVars, wpc, authenticated, domains, send, closed, lastReply, updNew>>
    /\ UNCHANGED <<bcVars, panicked, ghostVars, compVars>>

\* readPump's deferred c.hub.Unregister(c): the hub loop receives the
\* client; then c.conn.Close()
Unregister(c) ==
    /\ pc[c] = "unregister"
    /\ hubOp = Idle
    /\ hubOp' = [op |-> "unregister", c |-> c]
    /\ pc' = [pc EXCEPT ![c] = "done"]
    /\ conn' = [conn EXCEPT ![c] = "closed"]
    /\ UNCHANGED <<clients, subscriptions, mu, wpc, authenticated, domains, send,
                   closed, lastReply, updNew>>
    /\ UNCHANGED <<bcVars, panicked, ghostVars, compVars>>

\* ------------------------------------------------------------------------
\* Session: writePump
\* ------------------------------------------------------------------------

\* writePump: a message is received from c.send and written; the write
\* succeeds, or fails (then writePump returns and closes the transport)
WriteMessage(c) ==
    /\ wpc[c] = "run"
    /\ send[c] # <<>>
    /\ send' = [send EXCEPT ![c] = Tail(@)]
    /\ \/ /\ conn[c] = "open"
          /\ UNCHANGED <<wpc, conn>>
       \/ /\ wpc' = [wpc EXCEPT ![c] = "done"]
          /\ conn' = [conn EXCEPT ![c] = "closed"]
    /\ UNCHANGED <<hubVars, pc, authenticated, domains, closed, lastReply, updNew>>
    /\ UNCHANGED <<bcVars, panicked, ghostVars, compVars>>

\* writePump: the receive from c.send reports the channel closed and
\* drained; a close frame is written and writePump returns
WriteClose(c) ==
    /\ wpc[c] = "run"
    /\ send[c] = <<>>
    /\ closed[c] > 0
    /\ wpc' = [wpc EXCEPT ![c] = "done"]
    /\ conn' = [conn EXCEPT ![c] = "closed"]
    /\ UNCHANGED <<hubVars, pc, authenticated, domains, send, closed, lastReply, updNew>>
    /\ UNCHANGED <<bcVars, panicked, ghostVars, compVars>>

\* writePump: the ticker fires and the ping write fails; writePump returns
WritePingFails(c) ==
    /\ wpc[c] = "run"
    /\ wpc' = [wpc EXCEPT ![c] = "done"]
    /\ conn' = [conn EXCEPT ![c] = "closed"]
    /\ UNCHANGED <<hubVars, pc, authenticated, domains, send, closed, lastReply, updNew>>
    /\ UNCHANGED <<bcVars, panicked, ghostVars, compVars>>

\* ------------------------------------------------------------------------
\* BroadcastCert (called by the watcher's change callback)
\* ------------------------------------------------------------------------

\* the select in BroadcastCert can take its send case: the mailbox has room
HasRoom(c) == Len(send[c]) < SendCap

\* BroadcastCert: subscribers := h.GetSubscribers(domain).  (NewMessage
\* cannot fail for a CertPushData, so its error return is not a step.)
BroadcastResolve(d) ==
    /\ bpc = "idle"
    /\ RLockFree
    /\ bpc' = "sending"
    /\ bDomain' = d
    /\ bTargets' = GetSubscribers(d)
    /\ bSubs' = GetSubscribers(d)
    /\ bSent' = 0
    /\ bAccepted' = {}
    /\ bStars' = { c \in clients : P_star \in Range(domains[c]) }
    /\ bCommon' = { c \in Clients : d \in updCommon[c] }
    /\ UNCHANGED <<hubVars, sessVars, panicked, noopFor, everRegistered,
                   everValid, lastAuth, updCommon, compVars>>

\* BroadcastCert: one iteration of the loop over subscribers,
\* select { case client.send <- msg: sent++; default: skip }
BroadcastSend(c) ==
    /\ bpc = "sending"
    /\ c \in bSubs
    /\ bSubs' = bSubs \ {c}
    /\ IF closed[c] > 0
       THEN /\ panicked' = "send on closed channel"
            /\ UNCHANGED <<send, bSent, bAccepted>>
       ELSE IF HasRoom(c)
            THEN /\ send' = [send EXCEPT ![c] = Append(@, bDomain)]
                 /\ bSent' = bSent + 1
                 /\ bAccepted' = bAccepted \cup {c}
                 /\ UNCHANGED panicked
            ELSE UNCHANGED <<send, bSent, bAccepted, panicked>>
    /\ UNCHANGED <<hubVars, pc, wpc, conn, authenticated, domains, closed, lastReply, updNew>>
    /\ UNCHANGED <<bpc, bDomain, bTargets, ghostVars, compVars>>

\* The value BroadcastCert returns: 0 when there was no subscriber, else sent
BroadcastCertResult == IF bTargets = {} THEN 0 ELSE bSent

\* BroadcastCert returns (its locals go out of scope)
BroadcastReturn ==
    /\ bpc = "sending"
    /\ bSubs = {}
    /\ bpc' = "idle"
    /\ bDomain' = <<>>
    /\ bTargets' = {}
    /\ bSent' = 0
    /\ bAccepted' = {}
    /\ bStars' = {}
    /\ bCommon' = {}
    /\ UNCHANGED <<hubVars, sessVars, bSubs, panicked>>
    /\ UNCHANGED <<noopFor, everRegistered, everValid, lastAuth, updCommon, compVars>>

\* ------------------------------------------------------------------------
\* Specification of the server
\* ------------------------------------------------------------------------

\* Steps of the read loops of the connections C, whose peers send pattern
\* lists from L and sign with passwords from PW and timestamps from TS.
ReadPumps(C, L, PW, TS) ==
    \/ \E c \in C : ServeWs(c)
    \/ \E c \in C, pw \in PW, ts \in TS, doms \in L : HandleAuth(c, pw, ts, doms)
    \/ \E c \in C : Register(c)
    \/ \E c \in C, doms \in L : UpdateSubscriptionBegin(c, doms)
    \/ \E c \in C : UpdateSubscriptionEnd(c)
    \/ \E c \in C : ReadError(c)
    \/ \E c \in C : Unregister(c)

\* The peers of the connections C send auth messages that do not parse.
MalformedAuth(C) == \E c \in C : HandleAuthMalformed(c)

\* Steps of the write loops of the connections C.
WritePumps(C) ==
    \/ \E c \in C : WriteMessage(c)
    \/ \E c \in C : WriteClose(c)
    \/ \E c \in C : WritePingFails(c)

\* Steps of the watcher's change callback.
Broadcasts ==
    \/ \E d \in Domains : BroadcastResolve(d)
    \/ \E c \in Clients : BroadcastSend(c)
    \/ BroadcastReturn

\* The steps of the server process; a panic ends the process.
Server(C, L, PW, TS) ==
    /\ panicked = "none"
    /\ \/ HubApply
       \/ ReadPumps(C, L, PW, TS)
       \/ MalformedAuth(C)
       \/ WritePumps(C)
       \/ Broadcasts

Next == Server({"c1"}, DomainLists, Passwords, Timestamps)

Spec == Init /\ [][Next]_vars

\* ------------------------------------------------------------------------
\* Specification of the server with further callers of Hub.Unregister
\* ------------------------------------------------------------------------

\* Hub.Unregister(client) called for a connection that is not in the live
\* set (never registered, or deregistered before): the hub loop receives it
UnregisterAgain(c) ==
    /\ pc[c] # "none"
    /\ c \notin clients
    /\ hubOp = Idle
    /\ hubOp' = [op |-> "unregister", c |-> c]
    /\ UNCHANGED <<clients, subscriptions, mu, sessVars>>
    /\ UNCHANGED <<bcVars, panicked, ghostVars, compVars>>

NextDereg ==
    \/ Next
    \/ /\ panicked = "none"
       /\ \E c \in Clients : UnregisterAgain(c)

SpecDereg == Init /\ [][NextDereg]_vars

\* ------------------------------------------------------------------------
\* Specification of the server with two connections: both peers present
\* valid credentials, c1 moves between an exact and a wildcard pattern, c2
\* holds both, and c2 is a slow consumer (its write loop takes no step)
\* ------------------------------------------------------------------------

Next2 ==
    /\ panicked = "none"
    /\ \/ HubApply
       \/ ReadPumps({"c1"}, {<<D_ab>>, <<P_wild>>}, {Password}, {NowT})
       \/ ReadPumps({"c2"}, {<<D_ab, P_wild>>}, {Password}, {NowT})
       \/ WritePumps({"c1"})
       \/ Broadcasts

Spec2 == Init /\ [][Next2]_vars

\* ------------------------------------------------------------------------
\* Specification of the matcher: the hub's match of one pattern against one
\* domain, for every pattern and domain up to MaxLen characters
\* ------------------------------------------------------------------------

Strings == UNION { [1..k -> Chars] : k \in 0..MaxLen }

InitMatch ==
    /\ ServerInit
    /\ NoVerify
    /\ NoSync
    /\ NoFiles
    /\ NoDeploy
    /\ NoWatcher
    /\ NoReload
    /\ NoDaemon
    /\ mPattern \in Strings
    /\ mDomain \in Strings
    /\ mResult = "unset"

\* GetSubscribers(mDomain) on a hub whose only subscription is mPattern
Match ==
    /\ mResult = "unset"
    /\ mResult' = IF "c1" \in SubscribersOf([p \in {mPattern} |-> {"c1"}], mDomain)
                  THEN "match" ELSE "nomatch"
    /\ UNCHANGED <<serverVars, statusVars, sessionVars, mPattern, mDomain, verifyVars,
                   fileVars, deployVars, watchVars, reloadVars, daemonVars>>

SpecMatch == InitMatch /\ [][Match]_vars

\* ------------------------------------------------------------------------
\* Specification of the server with peers that send every message type
\* ------------------------------------------------------------------------

\* Message types other than auth (message.go), and a type the server does
\* not know.
OtherTypes ==
    { "ping", "cert_ack", "subscribe", "cert_request", "status_request",
      "sync_request", "unknown" }

\* readPump: ReadMessage returned a message of type t and json.Unmarshal
\* succeeded; handleMessage is called
ReadOther(c, t) ==
    /\ Reading(c)
    /\ pc' = [pc EXCEPT ![c] = "handle"]
    /\ msgType' = [msgType EXCEPT ![c] = t]
    /\ UNCHANGED <<hubVars, wpc, conn, authenticated, domains, send, closed, lastReply, updNew>>
    /\ UNCHANGED <<bcVars, panicked, ghostVars, sideVars, wireVars, syncVars>>

\* What handleMessage passes to sendMessage for a message of type t that is
\* not auth ("nothing" when it sends nothing).  For an authenticated
\* connection subscribe and sync_request stand for messages whose data does
\* not parse: they are logged and dropped.
ReplyTo(t, authed) ==
    CASE t = "ping" -> "pong"
      [] t = "cert_ack" -> "nothing"
      [] t = "subscribe" -> IF authed THEN "nothing" ELSE "error_401"
      [] t = "cert_request" -> IF authed THEN "cert_response" ELSE "error_401"
      [] t = "status_request" -> IF authed THEN "status_response" ELSE "error_401"
      [] t = "sync_request" -> IF authed THEN "nothing" ELSE "error_401"
      [] OTHER -> IF authed THEN "nothing" ELSE "error_401"

\* handleMessage on a message whose type is not auth; sendMessage writes
\* the reply to the transport (a write on a closed transport fails and the
\* error is ignored)
HandleOther(c) ==
    /\ pc[c] = "handle"
    /\ pc' = [pc EXCEPT ![c] = "read"]
    /\ msgType' = [msgType EXCEPT ![c] = "none"]
    /\ lastReply' = [lastReply EXCEPT ![c] =
            IF ReplyTo(msgType[c], authenticated[c]) # "nothing" /\ conn[c] = "open"
            THEN ReplyTo(msgType[c], authenticated[c])
            ELSE @]
    /\ UNCHANGED <<hubVars, wpc, conn, authenticated, domains, send, closed, updNew>>
    /\ UNCHANGED <<bcVars, panicked, ghostVars, sideVars, wireVars, syncVars>>

NextMsg ==
    \/ Server({"c1"}, {<<D_ab>>}, Passwords, {NowT})
    \/ /\ panicked = "none"
       /\ \/ \E t \in OtherTypes : ReadOther("c1", t)
          \/ HandleOther("c1")

SpecMsg == Init /\ [][NextMsg]_vars

\* ------------------------------------------------------------------------
\* Specification of one connection's writes to its transport, step by step:
\* sendMessage (read loop) and writePump take Client.mu around WriteMessage;
\* outbound messages are numbered in the order in which they are issued
\* ------------------------------------------------------------------------

\* Outbound messages issued per connection.
MaxIssued == 3

\* Client.mu taken by nobody although a goroutine holds it
ClientMuIgnored(c) == TRUE

\* c.mu.Lock() succeeds
ClientMuFree(c) == cmu[c] = "free"

\* The next outbound message of the connection is issued.
CanIssue(c) == issued[c] < MaxIssued

\* HandleAuth after a successful verification: hub.Register(client), then
\* sendAuthResult(true, ...) calls sendMessage
RegisterAndReply(c) ==
    /\ pc[c] = "register"
    /\ hubOp = Idle
    /\ CanIssue(c)
    /\ hubOp' = [op |-> "register", c |-> c]
    /\ issued' = [issued EXCEPT ![c] = @ + 1]
    /\ rmsg' = [rmsg EXCEPT ![c] = issued[c] + 1]
    /\ pc' = [pc EXCEPT ![c] = "sm_lock"]
    /\ UNCHANGED <<clients, subscriptions, mu, wpc, conn, authenticated, domains,
                   send, closed, lastReply, updNew>>
    /\ UNCHANGED <<bcVars, panicked, ghostVars, sideVars, msgVars, syncVars,
                   cmu, inWrite, wmsg, wire>>

\* handleMessage builds a reply (pong, cert_response, status_response,
\* error) and calls sendMessage
SendMessageCall(c) ==
    /\ Reading(c)
    /\ CanIssue(c)
    /\ issued' = [issued EXCEPT ![c] = @ + 1]
    /\ rmsg' = [rmsg EXCEPT ![c] = issued[c] + 1]
    /\ pc' = [pc EXCEPT ![c] = "sm_lock"]
    /\ UNCHANGED <<hubVars, wpc, conn, authenticated, domains, send, closed, lastReply, updNew>>
    /\ UNCHANGED <<bcVars, panicked, ghostVars, sideVars, msgVars, syncVars,
                   cmu, inWrite, wmsg, wire>>

\* sendMessage: c.mu.Lock(); c.conn.WriteMessage(...) begins
SendMessageLock(c) ==
    /\ pc[c] = "sm_lock"
    /\ ClientMuFree(c)
    /\ cmu' = [cmu EXCEPT ![c] = "readPump"]
    /\ inWrite' = [inWrite EXCEPT ![c] = @ \cup {"readPump"}]
    /\ pc' = [pc EXCEPT ![c] = "sm_write"]
    /\ UNCHANGED <<hubVars, wpc, conn, authenticated, domains, send, closed, lastReply, updNew>>
    /\ UNCHANGED <<bcVars, panicked, ghostVars, sideVars, msgVars, syncVars,
                   rmsg, wmsg, issued, wire>>

\* sendMessage: WriteMessage returns (its error is ignored); deferred
\* c.mu.Unlock()
SendMessageDone(c) ==
    /\ pc[c] = "sm_write"
    /\ wire' = [wire EXCEPT ![c] = IF conn[c] = "open" THEN Append(@, rmsg[c]) ELSE @]
    /\ cmu' = [cmu EXCEPT ![c] = "free"]
    /\ inWrite' = [inWrite EXCEPT ![c] = @ \ {"readPump"}]
    /\ pc' = [pc EXCEPT ![c] = "read"]
    /\ UNCHANGED <<hubVars, wpc, conn, authenticated, domains, send, closed, lastReply, updNew>>
    /\ UNCHANGED <<bcVars, panicked, ghostVars, sideVars, msgVars, syncVars,
                   rmsg, wmsg, issued>>

\* pushCertToDomain (sync request, in the read loop):
\* select { case c.send <- msg: ...; default: ... } with room in the mailbox
SyncPush(c) ==
    /\ Reading(c)
    /\ authenticated[c]
    /\ HasRoom(c)
    /\ CanIssue(c)
    /\ issued' = [issued EXCEPT ![c] = @ + 1]
    /\ send' = [send EXCEPT ![c] = Append(@, issued[c] + 1)]
    /\ UNCHANGED <<hubVars, pc, wpc, conn, authenticated, domains, closed, lastReply, updNew>>
    /\ UNCHANGED <<bcVars, panicked, ghostVars, sideVars, msgVars, syncVars,
                   cmu, inWrite, rmsg, wmsg, wire>>

\* BroadcastCert: case client.send <- msg, for a live connection
BroadcastPush(c) ==
    /\ c \in clients
    /\ HasRoom(c)
    /\ CanIssue(c)
    /\ issued' = [issued EXCEPT ![c] = @ + 1]
    /\ send' = [send EXCEPT ![c] = Append(@, issued[c] + 1)]
    /\ UNCHANGED <<hubVars, pc, wpc, conn, authenticated, domains, closed, lastReply, updNew>>
    /\ UNCHANGED <<bcVars, panicked, ghostVars, sideVars, msgVars, syncVars,
                   cmu, inWrite, rmsg, wmsg, wire>>

\* writePump: case msg, ok := <-c.send with ok true; json.Marshal
WriteRecv(c) ==
    /\ wpc[c] = "run"
    /\ send[c] # <<>>
    /\ wmsg' = [wmsg EXCEPT ![c] = Head(send[c])]
    /\ send' = [send EXCEPT ![c] = Tail(@)]
    /\ wpc' = [wpc EXCEPT ![c] = "w_lock"]
    /\ UNCHANGED <<hubVars, pc, conn, authenticated, domains, closed, lastReply, updNew>>
    /\ UNCHANGED <<bcVars, panicked, ghostVars, sideVars, msgVars, syncVars,
                   cmu, inWrite, rmsg, issued, wire>>

\* writePump: c.mu.Lock(); WriteMessage(TextMessage, data) begins
WriteLock(c) ==
    /\ wpc[c] = "w_lock"
    /\ ClientMuFree(c)
    /\ cmu' = [cmu EXCEPT ![c] = "writePump"]
    /\ inWrite' = [inWrite EXCEPT ![c] = @ \cup {"writePump"}]
    /\ wpc' = [wpc EXCEPT ![c] = "w_write"]
    /\ UNCHANGED <<hubVars, pc, conn, authenticated, domains, send, closed, lastReply, updNew>>
    /\ UNCHANGED <<bcVars, panicked, ghostVars, sideVars, msgVars, syncVars,
                   rmsg, wmsg, issued, wire>>

\* writePump: WriteMessage returns; c.mu.Unlock(); on an error writePump
\* returns and its deferred function closes the transport
WriteDone(c) ==
    /\ wpc[c] = "w_write"
    /\ cmu' = [cmu EXCEPT ![c] = "free"]
    /\ inWrite' = [inWrite EXCEPT ![c] = @ \ {"writePump"}]
    /\ \/ /\ conn[c] = "open"
          /\ wire' = [wire EXCEPT ![c] = Append(@, wmsg[c])]
          /\ wpc' = [wpc EXCEPT ![c] = "run"]
          /\ UNCHANGED conn
       \/ /\ wpc' = [wpc EXCEPT ![c] = "done"]
          /\ conn' = [conn EXCEPT ![c] = "closed"]
          /\ UNCHANGED wire
    /\ UNCHANGED <<hubVars, pc, authenticated, domains, send, closed, lastReply, updNew>>
    /\ UNCHANGED <<bcVars, panicked, ghostVars, sideVars, msgVars, syncVars,
                   rmsg, wmsg, issued>>

\* writePump: case <-ticker.C; c.mu.Lock(); WriteMessage(PingMessage) begins
PingLock(c) ==
    /\ wpc[c] = "run"
    /\ ClientMuFree(c)
    /\ cmu' = [cmu EXCEPT ![c] = "writePump"]
    /\ inWrite' = [inWrite EXCEPT ![c] = @ \cup {"writePump"}]
    /\ wpc' = [wpc EXCEPT ![c] = "p_write"]
    /\ UNCHANGED <<hubVars, pc, conn, authenticated, domains, send, closed, lastReply, updNew>>
    /\ UNCHANGED <<bcVars, panicked, ghostVars, sideVars, msgVars, syncVars,
                   rmsg, wmsg, issued, wire>>

\* writePump: the ping write returns; c.mu.Unlock(); on an error writePump
\* returns
PingDone(c) ==
    /\ wpc[c] = "p_write"
    /\ cmu' = [cmu EXCEPT ![c] = "free"]
    /\ inWrite' = [inWrite EXCEPT ![c] = @ \ {"writePump"}]
    /\ \/ /\ conn[c] = "open"
          /\ wpc' = [wpc EXCEPT ![c] = "run"]
          /\ UNCHANGED conn
       \/ /\ wpc' = [wpc EXCEPT ![c] = "done"]
          /\ conn' = [conn EXCEPT ![c] = "closed"]
    /\ UNCHANGED <<hubVars, pc, authenticated, domains, send, closed, lastReply, updNew>>
    /\ UNCHANGED <<bcVars, panicked, ghostVars, sideVars, msgVars, syncVars,
                   rmsg, wmsg, issued, wire>>

\* writePump: the receive reports the mailbox closed;
\* WriteMessage(CloseMessage) begins, without Client.mu
CloseFrame(c) ==
    /\ wpc[c] = "run"
    /\ send[c] = <<>>
    /\ closed[c] > 0
    /\ inWrite' = [inWrite EXCEPT ![c] = @ \cup {"writePump"}]
    /\ wpc' = [wpc EXCEPT ![c] = "c_write"]
    /\ UNCHANGED <<hubVars, pc, conn, authenticated, domains, send, closed, lastReply, updNew>>
    /\ UNCHANGED <<bcVars, panicked, ghostVars, sideVars, msgVars, syncVars,
                   cmu, rmsg, wmsg, issued, wire>>

\* writePump: the close frame write returns; writePump returns and its
\* deferred function closes the transport
CloseDone(c) ==
    /\ wpc[c] = "c_write"
    /\ inWrite' = [inWrite EXCEPT ![c] = @ \ {"writePump"}]
    /\ wpc' = [wpc EXCEPT ![c] = "done"]
    /\ conn' = [conn EXCEPT ![c] = "closed"]
    /\ UNCHANGED <<hubVars, pc, authenticated, domains, send, closed, lastReply, updNew>>
    /\ UNCHANGED <<bcVars, panicked, ghostVars, sideVars, msgVars, syncVars,
                   cmu, rmsg, wmsg, issued, wire>>

NextWire ==
    /\ panicked = "none"
    /\ \/ HubApply
       \/ ServeWs("c1")
       \/ HandleAuth("c1", Password, NowT, <<D_ab>>)
       \/ RegisterAndReply("c1")
       \/ SendMessageCall("c1")
       \/ SendMessageLock("c1")
       \/ SendMessageDone("c1")
       \/ SyncPush("c1")
       \/ BroadcastPush("c1")
       \/ ReadError("c1")
       \/ Unregister("c1")
       \/ WriteRecv("c1")
       \/ WriteLock("c1")
       \/ WriteDone("c1")
       \/ PingLock("c1")
       \/ PingDone("c1")
       \/ CloseFrame("c1")
       \/ CloseDone("c1")

SpecWire == Init /\ [][NextWire]_vars

\* ------------------------------------------------------------------------
\* Specification of the server with a certificate store and a peer that
\* subscribes to * and sends sync requests
\* ------------------------------------------------------------------------

\* Largest time.log value and largest client timestamp.
MaxStamp == 2

D_a == <<"a">>                     \* a

\* The directories of the store, in the order os.ReadDir lists them.
StoreOrder == <<D_a, D_ab, D_b>>

\* Stores: every directory with a time.log value, 0 for a directory without
\* a readable time.log.
Stores == [Range(StoreOrder) -> 0..MaxStamp]

\* The timestamp maps a sync request may carry.
ClientTimestamps == UNION { [S -> 1..MaxStamp] : S \in SUBSET Range(StoreOrder) }

\* readServerTimestamp(domain): 0 when there is no such directory or no
\* readable time.log
readServerTimestamp(domain) ==
    IF domain \in DOMAIN store THEN store[domain] ELSE 0

\* clientTimestamps[domain]: the zero value when the map has no entry
ClientTimestamp(T, domain) == IF domain \in DOMAIN T THEN T[domain] ELSE 0

\* the comparison pushing on equal timestamps too
NeedsPushOrEqual(serverTS, clientTS) == serverTS >= clientTS

\* if serverTS > clientTS
NeedsPush(serverTS, clientTS) == serverTS > clientTS

\* The domains handleSyncRequest compares, in order: every directory of the
\* store for the pattern *, the pattern itself otherwise.
RECURSIVE SyncCandidates(_)
SyncCandidates(doms) ==
    IF doms = <<>> THEN <<>>
    ELSE (IF Head(doms) = P_star THEN StoreOrder ELSE <<Head(doms)>>)
         \o SyncCandidates(Tail(doms))

InitSync ==
    /\ ServerInit
    /\ NoMatch
    /\ NoVerify
    /\ NoFiles
    /\ NoDeploy
    /\ NoWatcher
    /\ NoReload
    /\ NoDaemon
    /\ store \in Stores
    /\ NoSyncRequest

\* The loops of handleSyncRequest and syncAllDomains over the domains todo,
\* with pushCertToDomain's select on the mailbox: the mailbox afterwards,
\* the domains pushed and the domains dropped for a full mailbox.
RECURSIVE SyncLoop(_, _, _)
SyncLoop(todo, T, mailbox) ==
    IF todo = <<>>
    THEN [send |-> mailbox, sent |-> {}, dropped |-> {}]
    ELSE LET domain == Head(todo)
             serverTS == readServerTimestamp(domain)
             clientTS == ClientTimestamp(T, domain)
         IN  IF serverTS = 0 \/ ~NeedsPush(serverTS, clientTS)
             THEN SyncLoop(Tail(todo), T, mailbox)
             ELSE IF Len(mailbox) < SendCap
                  THEN LET r == SyncLoop(Tail(todo), T, Append(mailbox, domain))
                       IN  [r EXCEPT !.sent = @ \cup {domain}]
                  ELSE LET r == SyncLoop(Tail(todo), T, mailbox)
                       IN  [r EXCEPT !.dropped = @ \cup {domain}]

\* handleMessage on a sync_request of an authenticated connection:
\* handleSyncRequest(msg) with req.Timestamps = T, up to its last log line
handleSyncRequest(c, T) ==
    /\ Reading(c)
    /\ authenticated[c]
    /\ pc' = [pc EXCEPT ![c] = "synced"]
    /\ syncT' = T
    /\ LET r == SyncLoop(SyncCandidates(domains[c]), T, send[c])
       IN  /\ send' = [send EXCEPT ![c] = r.send]
           /\ syncSent' = r.sent
           /\ syncDropped' = r.dropped
    /\ UNCHANGED <<hubVars, wpc, conn, authenticated, domains, closed, lastReply, updNew>>
    /\ UNCHANGED <<bcVars, panicked, ghostVars, sideVars, msgVars, wireVars, store>>

\* handleSyncRequest returns (its locals go out of scope)
SyncReturn(c) ==
    /\ pc[c] = "synced"
    /\ pc' = [pc EXCEPT ![c] = "read"]
    /\ syncT' = <<>>
    /\ syncSent' = {}
    /\ syncDropped' = {}
    /\ UNCHANGED <<hubVars, wpc, conn, authenticated, domains, send, closed, lastReply, updNew>>
    /\ UNCHANGED <<bcVars, panicked, ghostVars, sideVars, msgVars, wireVars, store>>

\* One connection whose peer subscribes to * or to a.b, sends sync requests
\* and reads what it is sent.
NextSync ==
    /\ panicked = "none"
    /\ \/ HubApply
       \/ ServeWs("c1")
       \/ \E doms \in {<<P_star>>, <<D_ab>>} : HandleAuth("c1", Password, NowT, doms)
       \/ Register("c1")
       \/ ReadError("c1")
       \/ Unregister("c1")
       \/ WriteMessage("c1")
       \/ \E T \in ClientTimestamps : handleSyncRequest("c1", T)
       \/ SyncReturn("c1")

SpecSync == InitSync /\ [][NextSync]_vars

\* ------------------------------------------------------------------------
\* Specification of one connection's life with the scheduling the runtime
\* gives: goroutines that can take a step take it, a read on a closed
\* transport returns an error, and the ping ticker fires (a ping on a closed
\* transport fails)
\* ------------------------------------------------------------------------

NextLive ==
    /\ panicked = "none"
    /\ \/ HubApply
       \/ ReadPumps({"c1"}, {<<D_ab>>, <<P_wild>>}, Passwords, {NowT})
       \/ WritePumps({"c1"})

FairLive ==
    /\ WF_vars(HubApply)
    /\ WF_vars(Register("c1"))
    /\ WF_vars(UpdateSubscriptionEnd("c1"))
    /\ WF_vars(Unregister("c1"))
    /\ WF_vars(conn["c1"] = "closed" /\ ReadError("c1"))
    /\ WF_vars(WriteMessage("c1"))
    /\ WF_vars(WriteClose("c1"))
    /\ WF_vars(conn["c1"] = "closed" /\ WritePingFails("c1"))

SpecLive == Init /\ [][NextLive]_vars /\ FairLive

\* ------------------------------------------------------------------------
\* Specification of the verifier: VerifySignature on one signature and one
\* timestamp, for every timestamp around the window and every signature a
\* peer can compute from a password and a timestamp
\* ------------------------------------------------------------------------

\* Timestamps from before the window to after it.
VerifyTimestamps ==
    (NowT - DefaultTimestampTolerance - 2) .. (NowT + DefaultTimestampTolerance + 2)

\* Signatures a peer can present.
Signatures == { GenerateSignature(pw, ts) : pw \in Passwords, ts \in VerifyTimestamps }

InitVerify ==
    /\ ServerInit
    /\ NoMatch
    /\ NoSync
    /\ NoFiles
    /\ NoDeploy
    /\ NoWatcher
    /\ NoReload
    /\ NoDaemon
    /\ vSignature \in Signatures
    /\ vTimestamp \in VerifyTimestamps
    /\ vResult = "unset"

\* ok, errMsg := verifier.VerifySignature(signature, timestamp)
Verify ==
    /\ vResult = "unset"
    /\ vResult' = VerifySignature(vSignature, vTimestamp, NowT)
    /\ UNCHANGED <<serverVars, statusVars, sessionVars, matchVars, vSignature, vTimestamp,
                   fileVars, deployVars, watchVars, reloadVars, daemonVars>>

SpecVerify == InitVerify /\ [][Verify]_vars

\* ------------------------------------------------------------------------
\* Specification of the watcher's file recognition: readCertFiles on one
\* domain directory, for every set of files the directory can hold.  A file
\* name is the sequence of its dot-separated segments: cert.pem is
\* <<"cert", "pem">>, .gitignore is <<"", "gitignore">>, Makefile is
\* <<"Makefile">>.
\* ------------------------------------------------------------------------

\* The certFiles list of isCertFile.
certFiles ==
    { <<"cert", "pem">>, <<"key", "pem">>, <<"fullchain", "pem">>,
      <<"chain", "pem">>, <<"ca", "cer">>, <<"cert", "cer">>,
      <<"fullchain", "cer">> }

\* filepath.Ext(name): the suffix from the last dot on, "" without a dot.
Ext(name) == IF Len(name) >= 2 THEN "." \o name[Len(name)] ELSE ""

\* isCertFile(name)
isCertFile(name) ==
    \/ name \in certFiles
    \/ Ext(name) \in {".pem", ".cer", ".crt", ".key"}

\* The names of the files readCertFiles(domain) returns for a directory
\* holding the regular files dir.
readCertFiles(dir) == { name \in dir : isCertFile(name) }

\* The bundle files of the file recognition rule: a well-known name, one
\* of the four extensions, or the timestamp marker time.log.
BundleFile(name) ==
    \/ name \in certFiles
    \/ (Len(name) >= 2 /\ name[Len(name)] \in {"pem", "cer", "crt", "key"})
    \/ name = <<"time", "log">>

\* The file names a domain directory is populated from.
FileNames ==
    { <<"cert", "pem">>, <<"key", "pem">>, <<"fullchain", "pem">>,
      <<"ca", "cer">>, <<"wildcard", "example", "com", "crt">>,
      <<"server", "key">>, <<"time", "log">>, <<"readme", "txt">>,
      <<"cert", "pem", "bak">>, <<"", "gitignore">>, <<"cert">> }

InitFiles ==
    /\ ServerInit
    /\ NoMatch
    /\ NoVerify
    /\ NoSync
    /\ NoWatcher
    /\ NoReload
    /\ NoDaemon
    /\ NoDeploy
    /\ fDir \in SUBSET FileNames
    /\ fRead = {}
    /\ fpc = "start"

\* files, err := watcher.readCertFiles(domain)
ReadCertFiles ==
    /\ fpc = "start"
    /\ fRead' = readCertFiles(fDir)
    /\ fpc' = "done"
    /\ UNCHANGED <<serverVars, statusVars, sessionVars, matchVars, verifyVars, fDir,
                   deployVars, watchVars, reloadVars, daemonVars>>

SpecFiles == InitFiles /\ [][ReadCertFiles]_vars

\* ------------------------------------------------------------------------
\* Specification of the certificate watcher: Start, the filesystem under
\* baseDir, the fsnotify event channel and eventLoop with its ticker.  A
\* path is the sequence of its segments relative to baseDir: <<>> is baseDir,
\* <<d>> a domain directory, <<d, f>> the file f in it.  Time is counted in
\* ticker periods.
\* ------------------------------------------------------------------------

\* w.debounce, in ticker periods.
Debounce == 2

\* The clock stops here.
MaxTime == 4

\* Capacity used of the fsnotify Events channel.
MaxEvents == 1

\* The first-level directories: d1 exists when the watcher starts, d2 is
\* created later.
WatchDomains == {"d1", "d2"}

\* The files written into a domain directory.
WatchFiles == { <<"cert", "pem">>, <<"time", "log">>, <<"readme", "txt">> }

\* strings.Split(relPath, separator): never empty, the empty string gives
\* one empty segment.
SplitPath(relPath) == IF relPath = <<>> THEN <<"">> ELSE relPath

\* fsnotify reports an event for a path when the path's parent directory is
\* on the watch list.
Delivered(event) ==
    SubSeq(event.path, 1, Len(event.path) - 1) \in watched

\* The Events channel after the filesystem operation behind event.
Emit(event) ==
    IF Delivered(event) THEN Append(wEvents, event) ELSE wEvents

\* NewCertWatcher(baseDir, debounce) and OnChange(callback), over a baseDir
\* holding the directory d1.
InitWatch ==
    /\ ServerInit
    /\ NoMatch
    /\ NoVerify
    /\ NoSync
    /\ NoFiles
    /\ NoDeploy
    /\ NoReload
    /\ NoDaemon
    /\ clock = 0
    /\ dirs \in [{"d1"} -> SUBSET WatchFiles]
    /\ watched = {}
    /\ wState = "new"
    /\ wEvents = <<>>
    /\ pendingDomains = <<>>
    /\ lastUpdate = <<>>
    /\ burstLast = [d \in WatchDomains |-> -1]
    /\ burstCalls = [d \in WatchDomains |-> 0]
    /\ settled = {}
    /\ hadFiles = [d \in WatchDomains |-> {}]
    /\ callAt = [d \in WatchDomains |-> -1]
    /\ created = {}
    /\ stopChan = "open"
    /\ fsClosed = FALSE
    /\ stopCalls = 0
    /\ stopPanic = FALSE

stopVars == <<stopChan, fsClosed, stopCalls, stopPanic>>

watchRest ==
    <<serverVars, statusVars, sessionVars, matchVars, verifyVars, fileVars, deployVars, reloadVars, daemonVars,
      stopVars>>

\* Start: addWatchDir(baseDir), addWatchDir of every existing directory
\* entry, go eventLoop().
Start ==
    /\ wState = "new"
    /\ watched' = {<<>>} \cup { <<d>> : d \in DOMAIN dirs }
    /\ wState' = "running"
    /\ UNCHANGED <<clock, dirs, wEvents, pendingDomains, lastUpdate, burstLast,
                   burstCalls, settled, hadFiles, callAt, created, watchRest>>

\* A first-level directory is created under baseDir.
Mkdir(d) ==
    /\ d \notin DOMAIN dirs
    /\ Len(wEvents) < MaxEvents
    /\ dirs' = dirs @@ (d :> {})
    /\ wEvents' = Emit([op |-> "create", path |-> <<d>>])
    /\ UNCHANGED <<clock, watched, wState, pendingDomains, lastUpdate, burstLast,
                   burstCalls, settled, hadFiles, callAt, created, watchRest>>

\* The file f of directory d is created or written.
WriteFile(d, f) ==
    /\ d \in DOMAIN dirs
    /\ Len(wEvents) < MaxEvents
    /\ dirs' = [dirs EXCEPT ![d] = @ \cup {f}]
    /\ wEvents' = Emit([op |-> IF f \in dirs[d] THEN "write" ELSE "create",
                        path |-> <<d, f>>])
    /\ UNCHANGED <<clock, watched, wState, pendingDomains, lastUpdate, burstLast,
                   burstCalls, settled, hadFiles, callAt, created, watchRest>>

\* The file f of directory d is removed.
RemoveFile(d, f) ==
    /\ d \in DOMAIN dirs
    /\ f \in dirs[d]
    /\ Len(wEvents) < MaxEvents
    /\ dirs' = [dirs EXCEPT ![d] = @ \ {f}]
    /\ wEvents' = Emit([op |-> "remove", path |-> <<d, f>>])
    /\ UNCHANGED <<clock, watched, wState, pendingDomains, lastUpdate, burstLast,
                   burstCalls, settled, hadFiles, callAt, created, watchRest>>

\* handleEvent keeps only write and create events.
Relevant(event) == event.op \in {"write", "create"}

\* handleEvent's branch for len(parts) == 0 with filepath.Dir(relPath) == ".":
\* a new directory directly under baseDir is added to the watch list.
AddsWatch(event) ==
    /\ Relevant(event)
    /\ Len(SplitPath(event.path)) = 0
    /\ Len(event.path) = 1
    /\ event.path[1] \in DOMAIN dirs

\* handleEvent: the pending map after the event, handled at time t.
handleEvent(event, pending, t) ==
    IF ~Relevant(event) \/ Len(SplitPath(event.path)) = 0
    THEN pending
    ELSE LET domain == SplitPath(event.path)[1]
         IN  (domain :> t) @@ pending

\* eventLoop, case event := <-w.watcher.Events: handleEvent(event,
\* pendingDomains).
HandleEvent ==
    /\ wState = "running"
    /\ wEvents # <<>>
    /\ LET event == Head(wEvents)
           after == handleEvent(event, pendingDomains, clock)
           fresh == (DOMAIN after) \ (DOMAIN pendingDomains)
       IN  /\ wEvents' = Tail(wEvents)
           /\ pendingDomains' = after
           /\ watched' = IF AddsWatch(event) THEN watched \cup {event.path} ELSE watched
           /\ created' = IF Relevant(event) /\ Len(event.path) = 1
                         THEN created \cup {event.path[1]} ELSE created
           /\ burstLast' = [d \in WatchDomains |->
                               IF d \in DOMAIN after THEN after[d] ELSE burstLast[d]]
           /\ burstCalls' = [d \in WatchDomains |-> IF d \in fresh THEN 0 ELSE burstCalls[d]]
           /\ callAt' = [d \in WatchDomains |-> IF d \in fresh THEN -1 ELSE callAt[d]]
           /\ settled' = settled \ fresh
           /\ hadFiles' = [d \in WatchDomains |-> IF d \in fresh THEN {} ELSE hadFiles[d]]
    /\ UNCHANGED <<clock, dirs, wState, lastUpdate, watchRest>>

\* processPending: the domains whose last event is at least debounce old.
Ripe(pending, t) == { d \in DOMAIN pending : t - pending[d] >= Debounce }

\* processPending: the ripe domains dropped because the domain was
\* processed less than debounce ago.
Skipped(pending, t) ==
    { d \in Ripe(pending, t) : d \in DOMAIN lastUpdate /\ t - lastUpdate[d] < Debounce }

\* processPending: the domains the change callback is invoked for.
Notified(pending, t) ==
    { d \in Ripe(pending, t) \ Skipped(pending, t) :
         d \in DOMAIN dirs /\ readCertFiles(dirs[d]) # {} }

\* eventLoop, case <-ticker.C: one ticker period has passed,
\* processPending(pendingDomains).
Tick ==
    /\ wState = "running"
    /\ clock < MaxTime
    /\ clock' = clock + 1
    /\ LET t == clock + 1
           ripe == Ripe(pendingDomains, t)
           processed == ripe \ Skipped(pendingDomains, t)
           notified == Notified(pendingDomains, t)
       IN  /\ pendingDomains' = [d \in DOMAIN pendingDomains \ ripe |-> pendingDomains[d]]
           /\ lastUpdate' = [d \in processed |-> t] @@ lastUpdate
           /\ burstCalls' = [d \in WatchDomains |->
                                IF d \in notified THEN burstCalls[d] + 1 ELSE burstCalls[d]]
           /\ callAt' = [d \in WatchDomains |-> IF d \in notified THEN t ELSE callAt[d]]
           /\ settled' = settled \cup (ripe \cap WatchDomains)
           /\ hadFiles' = [d \in WatchDomains |->
                              IF d \in ripe /\ d \in DOMAIN dirs THEN dirs[d] ELSE hadFiles[d]]
    /\ UNCHANGED <<dirs, watched, wState, wEvents, burstLast, created, watchRest>>

NextWatch ==
    \/ Start
    \/ \E d \in WatchDomains : Mkdir(d)
    \/ \E d \in WatchDomains, f \in WatchFiles : WriteFile(d, f)
    \/ \E d \in WatchDomains, f \in WatchFiles : RemoveFile(d, f)
    \/ HandleEvent
    \/ Tick

SpecWatch == InitWatch /\ [][NextWatch]_vars

\* Calls of Stop made on one watcher.
MaxStops == 2

stopRest ==
    <<serverVars, statusVars, sessionVars, matchVars, verifyVars, fileVars, deployVars, reloadVars, daemonVars>>

\* Stop: close(w.stop), then w.watcher.Close(). Closing a channel that is
\* already closed panics.
Stop ==
    /\ wState # "crashed"
    /\ stopCalls < MaxStops
    /\ stopCalls' = stopCalls + 1
    /\ IF stopChan = "closed"
       THEN /\ stopPanic' = TRUE
            /\ wState' = "crashed"
            /\ UNCHANGED <<stopChan, fsClosed>>
       ELSE /\ stopChan' = "closed"
            /\ fsClosed' = TRUE
            /\ UNCHANGED <<stopPanic, wState>>
    /\ UNCHANGED <<clock, dirs, watched, wEvents, pendingDomains, lastUpdate,
                   burstLast, burstCalls, settled, hadFiles, callAt, created,
                   stopRest>>

\* eventLoop returns: case <-w.stop, or the Events or Errors channel of the
\* closed fsnotify watcher yields ok = false.
EventLoopReturns ==
    /\ wState = "running"
    /\ stopChan = "closed" \/ fsClosed
    /\ wState' = "exited"
    /\ UNCHANGED <<clock, dirs, watched, wEvents, pendingDomains, lastUpdate,
                   burstLast, burstCalls, settled, hadFiles, callAt, created,
                   stopVars, stopRest>>

NextStop ==
    \/ Start
    \/ \E d \in WatchDomains, f \in WatchFiles : WriteFile(d, f)
    \/ HandleEvent
    \/ Stop
    \/ EventLoopReturns

SpecStop == InitWatch /\ [][NextStop]_vars

\* C31: Stop is idempotent: no call of Stop panics, a second call and a
\* call made after the event loop has exited included, and once Stop has
\* been called the watcher is stopped.
C31_StopIdempotent ==
    /\ ~stopPanic
    /\ stopCalls > 0 => (stopChan = "closed" /\ fsClosed)

\* ------------------------------------------------------------------------
\* Specification of the client's ReloadDebouncer: Trigger calls, the timer
\* armed by time.AfterFunc and the goroutines in which the fired timer runs
\* execute.  Each section of code under r.mu is one step.
\* ------------------------------------------------------------------------

\* The reload commands of the deploy sites.
ReloadCmds == {"nginx", "haproxy"}

\* The goroutines a fired timer runs execute in.
Executors == {"e1", "e2"}

\* NewReloadDebouncer(delay)
NewReloadDebouncer ==
    /\ pendingCmds = {}
    /\ rTimer = "none"
    /\ executing = FALSE
    /\ epc = [e \in Executors |-> "idle"]
    /\ ecmds = [e \in Executors |-> {}]
    /\ debt = [cmd \in ReloadCmds |-> 0]
    /\ rExtra = FALSE

InitReload ==
    /\ ServerInit
    /\ NoMatch
    /\ NoVerify
    /\ NoSync
    /\ NoFiles
    /\ NoDeploy
    /\ NoWatcher
    /\ NoDaemon
    /\ NewReloadDebouncer

reloadRest ==
    <<serverVars, statusVars, sessionVars, matchVars, verifyVars, fileVars, deployVars, watchVars, daemonVars>>

\* Trigger(reloadCmd): an empty command returns at once; otherwise the
\* command joins pendingCmds, the old timer is stopped and a new one armed.
TriggerCall(reloadCmd) ==
    /\ IF reloadCmd = ""
       THEN UNCHANGED <<pendingCmds, rTimer, debt>>
       ELSE /\ pendingCmds' = pendingCmds \cup {reloadCmd}
            /\ rTimer' = "armed"
            /\ debt' = IF reloadCmd \in pendingCmds
                       THEN debt
                       ELSE [debt EXCEPT ![reloadCmd] = @ + 1]
    /\ UNCHANGED <<executing, epc, ecmds, rExtra>>

\* A Trigger call from outside the model of the daemon.
Trigger(reloadCmd) ==
    /\ TriggerCall(reloadCmd)
    /\ UNCHANGED reloadRest

\* The timer of time.AfterFunc(r.delay, r.execute) expires: execute starts
\* in a goroutine of its own.
TimerFires(e) ==
    /\ rTimer = "armed"
    /\ epc[e] = "idle"
    /\ rTimer' = "fired"
    /\ epc' = [epc EXCEPT ![e] = "start"]
    /\ UNCHANGED <<pendingCmds, executing, ecmds, debt, rExtra, reloadRest>>

SkipsBatchWhenEmpty == pendingCmds = {}

\* execute: r.executing || len(r.pendingCmds) == 0
SkipsBatch == executing \/ pendingCmds = {}

\* execute, first section under r.mu: return when a batch is executing or
\* nothing is pending, else take the pending commands and clear the set.
ExecuteBegin(e) ==
    /\ epc[e] = "start"
    /\ IF SkipsBatch
       THEN /\ epc' = [epc EXCEPT ![e] = "idle"]
            /\ UNCHANGED <<executing, ecmds, pendingCmds>>
       ELSE /\ executing' = TRUE
            /\ ecmds' = [ecmds EXCEPT ![e] = pendingCmds]
            /\ pendingCmds' = {}
            /\ epc' = [epc EXCEPT ![e] = "run"]
    /\ UNCHANGED <<rTimer, debt, rExtra, reloadRest>>

\* execute: r.executeCmd(cmd) for one of the commands taken, in the order of
\* the map iteration.
ExecuteCmd(e, cmd) ==
    /\ epc[e] = "run"
    /\ cmd \in ecmds[e]
    /\ ecmds' = [ecmds EXCEPT ![e] = @ \ {cmd}]
    /\ debt' = [debt EXCEPT ![cmd] = IF @ > 0 THEN @ - 1 ELSE @]
    /\ rExtra' = (rExtra \/ debt[cmd] = 0)
    /\ UNCHANGED <<pendingCmds, rTimer, executing, epc, reloadRest>>

\* execute, last section under r.mu: r.executing = false.
ExecuteEnd(e) ==
    /\ epc[e] = "run"
    /\ ecmds[e] = {}
    /\ executing' = FALSE
    /\ epc' = [epc EXCEPT ![e] = "idle"]
    /\ UNCHANGED <<pendingCmds, rTimer, ecmds, debt, rExtra, reloadRest>>

NextReload ==
    \/ \E reloadCmd \in ReloadCmds \cup {""} : Trigger(reloadCmd)
    \/ \E e \in Executors : TimerFires(e)
    \/ \E e \in Executors : ExecuteBegin(e)
    \/ \E e \in Executors, cmd \in ReloadCmds : ExecuteCmd(e, cmd)
    \/ \E e \in Executors : ExecuteEnd(e)

SpecReload == InitReload /\ [][NextReload]_vars

\* The timer's callback and the steps of execute are taken eventually: the Go
\* runtime runs the timer goroutine, r.mu is released by every holder and
\* executeCmd ends after its 15 s timeout at the latest.  Trigger calls come
\* from outside and may stop.
FairReload ==
    /\ \A e \in Executors : WF_vars(TimerFires(e))
    /\ \A e \in Executors : WF_vars(ExecuteBegin(e))
    /\ \A e \in Executors, cmd \in ReloadCmds : WF_vars(ExecuteCmd(e, cmd))
    /\ \A e \in Executors : WF_vars(ExecuteEnd(e))

SpecReloadLive == InitReload /\ [][NextReload]_vars /\ FairReload

\* ------------------------------------------------------------------------
\* Specification of the daemon's backoff(attempt, base).  A time.Duration
\* is an int64 count of nanoseconds; it is kept as its two's complement bit
\* pattern, eight 8-bit limbs with the least significant first, and the
\* arithmetic is modulo 2^64 as Go's is.
\* ------------------------------------------------------------------------

\* Limbs of an int64, and the values of one limb.
Limbs == 8
LimbBase == 256

\* The largest attempt backoff is called with.
MaxAttempt == 70

\* The int64 bit pattern of a natural number below 2^31.
ToInt64(n) == [i \in 1..Limbs |-> IF i <= 4 THEN (n \div (LimbBase ^ (i - 1))) % LimbBase ELSE 0]

\* The sum of the limb products a[i] * b[j] that land in limb k.
Column(a, b, k) ==
    LET RECURSIVE Sum(_)
        Sum(i) == IF i > k THEN 0 ELSE a[i] * b[k + 1 - i] + Sum(i + 1)
    IN  Sum(1)

\* a * b on int64: the low 64 bits of the product.
Mul64(a, b) ==
    LET RECURSIVE Carry(_)
        Carry(k) == IF k = 0 THEN 0 ELSE (Column(a, b, k) + Carry(k - 1)) \div LimbBase
    IN  [k \in 1..Limbs |-> (Column(a, b, k) + Carry(k - 1)) % LimbBase]

\* 1 << uint(attempt) on int64: zero once the shift count reaches 64.
ShiftOne(attempt) ==
    [i \in 1..Limbs |->
        IF attempt < 8 * Limbs /\ i = (attempt \div 8) + 1 THEN 2 ^ (attempt % 8) ELSE 0]

\* The sign bit of an int64.
Negative(a) == a[Limbs] >= LimbBase \div 2

\* a > b on int64.
Greater(a, b) ==
    LET RECURSIVE Above(_)
        Above(i) == IF i = 0 THEN FALSE
                    ELSE IF a[i] # b[i] THEN a[i] > b[i]
                    ELSE Above(i - 1)
    IN  IF Negative(a) # Negative(b) THEN Negative(b) ELSE Above(Limbs)

\* time.Second, and s seconds as a time.Duration.
Second == ToInt64(1000000000)
Seconds(s) == Mul64(ToInt64(s), Second)

\* const maxBackoff = 5 * time.Minute
maxBackoff == Seconds(300)

\* backoff(attempt, base)
backoff(attempt, base) ==
    LET delay == Mul64(base, ShiftOne(attempt))
    IN  IF Greater(delay, maxBackoff) THEN maxBackoff ELSE delay

\* d.config.ReconnectInterval: one second, and the default of 30 seconds.
ReconnectIntervals == { Seconds(1), Seconds(30) }

InitBackoff ==
    /\ ServerInit
    /\ NoMatch
    /\ NoVerify
    /\ NoSync
    /\ NoFiles
    /\ NoDeploy
    /\ NoWatcher
    /\ NoReload
    /\ NoRun
    /\ NoHeartbeat
    /\ NoPush
    /\ NoConfig
    /\ NoCatchUp
    /\ kAttempt \in 0..MaxAttempt
    /\ kBase \in ReconnectIntervals
    /\ kDelay = <<>>

\* waitDuration := backoff(attempt, d.config.ReconnectInterval)
Backoff ==
    /\ kDelay = <<>>
    /\ kDelay' = backoff(kAttempt, kBase)
    /\ UNCHANGED <<serverVars, statusVars, sessionVars, matchVars, verifyVars, fileVars, deployVars,
                   watchVars, reloadVars, kAttempt, kBase, runVars, heartVars,
                   pushVars, configVars, catchVars>>

SpecBackoff == InitBackoff /\ [][Backoff]_vars

\* ------------------------------------------------------------------------
\* Specification of the daemon's reconnect loop: Run, connectAndServe,
\* readLoop, the goroutines a session starts, the server end of the
\* connection and the cancellation of Run's context.
\* ------------------------------------------------------------------------

\* The reconnect waits a run goes through.
MaxWaits == 3

\* NewDaemon(cfg); Run(ctx) has reached its loop.
InitRun ==
    /\ ServerInit
    /\ NoMatch
    /\ NoVerify
    /\ NoSync
    /\ NoFiles
    /\ NoDeploy
    /\ NoWatcher
    /\ NoReload
    /\ NoBackoff
    /\ NoHeartbeat
    /\ NoPush
    /\ NoConfig
    /\ NoCatchUp
    /\ dpc = "top"
    /\ runAttempt = 0
    /\ dconn = "nil"
    /\ cancelled = FALSE
    /\ sessAuthed = FALSE
    /\ hbAlive = 0
    /\ cuAlive = 0

runRest == <<serverVars, statusVars, sessionVars, matchVars, verifyVars, fileVars, deployVars, watchVars,
             reloadVars, backoffVars, heartVars, pushVars, configVars,
             catchVars>>

\* Run, after connectAndServe has returned err: attempt is reset when err is
\* nil and kept otherwise.
AfterServe(err) == IF err = "nil" THEN 0 ELSE runAttempt

\* Run, outer select: return when the context is done, else call
\* connectAndServe, which dials.
RunSelect ==
    /\ dpc = "top"
    /\ dpc' = IF cancelled THEN "returned" ELSE "dial"
    /\ UNCHANGED <<runAttempt, dconn, cancelled, sessAuthed, hbAlive, cuAlive, runRest>>

\* connectAndServe: dialer.DialContext(ctx, serverURL, nil) succeeds, or
\* fails (always, once the context is done).
Dial ==
    /\ dpc = "dial"
    /\ \E ok \in {TRUE, FALSE} :
          /\ ok => ~cancelled
          /\ IF ok
             THEN /\ dconn' = "open"
                  /\ sessAuthed' = FALSE
                  /\ dpc' = "auth"
                  /\ UNCHANGED runAttempt
             ELSE /\ dpc' = "wait"
                  /\ runAttempt' = AfterServe("dial error")
                  /\ UNCHANGED <<dconn, sessAuthed>>
    /\ UNCHANGED <<cancelled, hbAlive, cuAlive, runRest>>

\* connectAndServe: authenticate writes the auth message; on success the
\* heartbeat and handleConfigUpdates goroutines are started and readLoop is
\* entered, on a write error the connection is closed and the error returned.
Authenticate ==
    /\ dpc = "auth"
    /\ IF dconn = "open"
       THEN /\ hbAlive' = hbAlive + 1
            /\ cuAlive' = cuAlive + 1
            /\ dpc' = "select"
            /\ UNCHANGED <<dconn, runAttempt>>
       ELSE /\ dconn' = "closed"
            /\ dpc' = "wait"
            /\ runAttempt' = AfterServe("write error")
            /\ UNCHANGED <<hbAlive, cuAlive>>
    /\ UNCHANGED <<cancelled, sessAuthed, runRest>>

\* readLoop, select: return ctx.Err() when the context is done, else call
\* d.conn.ReadMessage().
ReadSelect ==
    /\ dpc = "select"
    /\ IF cancelled
       THEN /\ dconn' = "closed"
            /\ dpc' = "wait"
            /\ runAttempt' = AfterServe("context canceled")
       ELSE /\ dpc' = "reading"
            /\ UNCHANGED <<dconn, runAttempt>>
    /\ UNCHANGED <<cancelled, sessAuthed, hbAlive, cuAlive, runRest>>

\* readLoop: d.conn.ReadMessage() returns a message of the server, which
\* handleMessage handles.
ReadMessage(msg) ==
    /\ dpc = "reading"
    /\ dconn = "open"
    /\ sessAuthed' = (sessAuthed \/ msg = "auth_result success")
    /\ dpc' = "select"
    /\ UNCHANGED <<runAttempt, dconn, cancelled, hbAlive, cuAlive, runRest>>

\* readLoop: d.conn.ReadMessage() returns an error, the connection being
\* closed or broken; connectAndServe closes the connection and returns it.
ReadFails ==
    /\ dpc = "reading"
    /\ dconn # "open"
    /\ dconn' = "closed"
    /\ dpc' = "wait"
    /\ runAttempt' = AfterServe("read error")
    /\ UNCHANGED <<cancelled, sessAuthed, hbAlive, cuAlive, runRest>>

\* Run, inner select: return when the context is done, or the backoff timer
\* expires, attempt++ and the loop starts over.
Wait ==
    /\ dpc = "wait"
    /\ \/ /\ cancelled
          /\ dpc' = "returned"
          /\ UNCHANGED runAttempt
       \/ /\ runAttempt < MaxWaits
          /\ runAttempt' = runAttempt + 1
          /\ dpc' = "top"
    /\ UNCHANGED <<dconn, cancelled, sessAuthed, hbAlive, cuAlive, runRest>>

\* heartbeat returns: the context is done, or writing the ping failed.
HeartbeatReturns ==
    /\ hbAlive > 0
    /\ cancelled \/ dconn # "open"
    /\ hbAlive' = hbAlive - 1
    /\ UNCHANGED <<dpc, runAttempt, dconn, cancelled, sessAuthed, cuAlive, runRest>>

\* heartbeat, after three missed pongs: d.conn.Close() and return.
HeartbeatCloses ==
    /\ hbAlive > 0
    /\ dconn = "open"
    /\ dconn' = "closed"
    /\ hbAlive' = hbAlive - 1
    /\ UNCHANGED <<dpc, runAttempt, cancelled, sessAuthed, cuAlive, runRest>>

\* handleConfigUpdates returns: the context is done.
ConfigUpdatesReturns ==
    /\ cuAlive > 0
    /\ cancelled
    /\ cuAlive' = cuAlive - 1
    /\ UNCHANGED <<dpc, runAttempt, dconn, cancelled, sessAuthed, hbAlive, runRest>>

\* The server closes the connection, or the network breaks it.
PeerCloses ==
    /\ dconn = "open"
    /\ dconn' = "broken"
    /\ UNCHANGED <<dpc, runAttempt, cancelled, sessAuthed, hbAlive, cuAlive, runRest>>

\* The caller of Run cancels the context.
Cancel ==
    /\ dpc # "returned"
    /\ ~cancelled
    /\ cancelled' = TRUE
    /\ UNCHANGED <<dpc, runAttempt, dconn, sessAuthed, hbAlive, cuAlive, runRest>>

\* The messages the server sends to the daemon.
ServerMessages == {"auth_result success", "auth_result failure", "cert_push"}

NextRun ==
    \/ RunSelect
    \/ Dial
    \/ Authenticate
    \/ ReadSelect
    \/ \E msg \in ServerMessages : ReadMessage(msg)
    \/ ReadFails
    \/ Wait
    \/ HeartbeatReturns
    \/ HeartbeatCloses
    \/ ConfigUpdatesReturns
    \/ PeerCloses
    \/ Cancel

SpecRun == InitRun /\ [][NextRun]_vars

\* Every step of the daemon's own goroutines is taken eventually: the dial
\* ends within its handshake timeout, selects and timers complete.  What the
\* server sends, whether the connection breaks, whether pongs are missed and
\* whether the context is cancelled is up to the environment.
FairRun ==
    /\ WF_vars(RunSelect)
    /\ WF_vars(Dial)
    /\ WF_vars(Authenticate)
    /\ WF_vars(ReadSelect)
    /\ WF_vars(ReadFails)
    /\ WF_vars(Wait)
    /\ WF_vars(HeartbeatReturns)
    /\ WF_vars(ConfigUpdatesReturns)

SpecRunLive == InitRun /\ [][NextRun]_vars /\ FairRun

\* ------------------------------------------------------------------------
\* Specification of the daemon's heartbeat: one heartbeat goroutine with its
\* ticker, the pongs that readLoop's handleMessage records, and the clock.
\* ------------------------------------------------------------------------

\* d.config.HeartbeatInterval, in clock units.
Interval == 2

\* The clock stops here.
MaxClock == 6 * Interval

\* const maxMissed = 3
maxMissed == 3

PongOverdueAtTwice(t, pong) == t - pong >= Interval * 2

\* heartbeat: time.Since(d.getLastPong()) > d.config.HeartbeatInterval*2
PongOverdue(t, pong) == t - pong > Interval * 2

\* go d.heartbeat(ctx): the ticker is created, d.updateLastPong() called and
\* missedPongs is 0.
InitHeartbeat ==
    /\ ServerInit
    /\ NoMatch
    /\ NoVerify
    /\ NoSync
    /\ NoFiles
    /\ NoDeploy
    /\ NoWatcher
    /\ NoReload
    /\ NoBackoff
    /\ NoRun
    /\ NoPush
    /\ NoConfig
    /\ NoCatchUp
    /\ hClock = 0
    /\ tickDue = FALSE
    /\ lastPong = 0
    /\ missedPongs = 0
    /\ hpc = "run"
    /\ hTicks = <<>>

heartRest == <<serverVars, statusVars, sessionVars, matchVars, verifyVars, fileVars, deployVars, watchVars,
               reloadVars, backoffVars, runVars, pushVars, configVars,
               catchVars>>

\* Time passes; the ticker fires every HeartbeatInterval.
TimePasses ==
    /\ hpc = "run"
    /\ ~tickDue
    /\ hClock < MaxClock
    /\ hClock' = hClock + 1
    /\ tickDue' = ((hClock + 1) % Interval = 0)
    /\ UNCHANGED <<lastPong, missedPongs, hpc, hTicks, heartRest>>

\* handleMessage, case pong: d.updateLastPong()
Pong ==
    /\ hpc = "run"
    /\ lastPong # hClock
    /\ lastPong' = hClock
    /\ UNCHANGED <<hClock, tickDue, missedPongs, hpc, hTicks, heartRest>>

\* The last three of the ticks handled, this one included.
LastTicks(tick) ==
    LET all == Append(hTicks, tick)
    IN  IF Len(all) > maxMissed THEN Tail(all) ELSE all

\* heartbeat, case <-ticker.C: count or reset the missed pongs, close the
\* connection at maxMissed, else write a ping and return if that fails.
HeartbeatTick ==
    /\ hpc = "run"
    /\ tickDue
    /\ tickDue' = FALSE
    /\ hTicks' = LastTicks([at |-> hClock, pong |-> lastPong])
    /\ IF PongOverdue(hClock, lastPong)
       THEN /\ missedPongs' = missedPongs + 1
            /\ IF missedPongs + 1 >= maxMissed
               THEN hpc' = "closed"
               ELSE \E written \in {TRUE, FALSE} :
                       hpc' = IF written THEN "run" ELSE "returned"
       ELSE /\ missedPongs' = 0
            /\ \E written \in {TRUE, FALSE} :
                  hpc' = IF written THEN "run" ELSE "returned"
    /\ UNCHANGED <<hClock, lastPong, heartRest>>

\* heartbeat, case <-ctx.Done(): return.
HeartbeatCancelled ==
    /\ hpc = "run"
    /\ hpc' = "returned"
    /\ UNCHANGED <<hClock, tickDue, lastPong, missedPongs, hTicks, heartRest>>

NextHeartbeat ==
    \/ TimePasses
    \/ Pong
    \/ HeartbeatTick
    \/ HeartbeatCancelled

SpecHeartbeat == InitHeartbeat /\ [][NextHeartbeat]_vars

\* ------------------------------------------------------------------------
\* Specification of the daemon's handling of one cert_push: the workspace
\* write, findSiteConfig, the deploy copies with their retries, the reload
\* trigger and the acknowledgement.  A site is its domain, the set of target
\* paths it configures and its reload command.
\* ------------------------------------------------------------------------

\* The third argument of deployCertFilesWithRetry.
maxRetries == 3

\* strings.HasSuffix(domain, suffix)
HasSuffix(domain, suffix) ==
    /\ Len(domain) >= Len(suffix)
    /\ SubSeq(domain, Len(domain) - Len(suffix) + 1, Len(domain)) = suffix

\* The test findSiteConfig applies to one site.
SiteMatches(site, domain) ==
    \/ site.domain = domain
    \/ /\ Len(site.domain) >= 2
       /\ SubSeq(site.domain, 1, 2) = <<"*", ".">>
       /\ HasSuffix(domain, Tail(site.domain))

\* findSiteConfig(domain) over d.config.Sites: the first site that matches.
RECURSIVE findSiteConfig(_, _)
findSiteConfig(sites, domain) ==
    IF sites = <<>> THEN NoSite
    ELSE IF SiteMatches(Head(sites), domain) THEN Head(sites)
    ELSE findSiteConfig(Tail(sites), domain)

\* deployCertFiles: a failed copy is logged, the result is nil whatever the
\* copies did.
deployCertFiles(failed) == "nil"

\* deployCertFilesWithRetry: the attempts made, given the copies that would
\* fail in each attempt, and the error returned.
RECURSIVE deployCertFilesWithRetry(_, _)
deployCertFilesWithRetry(fails, i) ==
    IF i > maxRetries
    THEN [made |-> <<>>, err |-> "deploy error"]
    ELSE IF deployCertFiles(fails[i]) = "nil"
         THEN [made |-> <<fails[i]>>, err |-> "nil"]
         ELSE LET rest == deployCertFilesWithRetry(fails, i + 1)
              IN  [made |-> <<fails[i]>> \o rest.made, err |-> rest.err]

\* The sites of a configuration.
Sites ==
    { [domain |-> P_wild, paths |-> {"cert", "key", "fullchain"}, reloadCmd |-> "nginx"],
      [domain |-> D_ab,   paths |-> {"cert", "key"},              reloadCmd |-> "haproxy"],
      [domain |-> D_b,    paths |-> {"fullchain"},                reloadCmd |-> ""] }

\* d.config.Sites: up to two sites in either order.
SiteLists ==
    {<<>>} \cup { <<x>> : x \in Sites }
           \cup { l \in { <<x, y>> : x \in Sites, y \in Sites } : l[1] # l[2] }

\* NewDaemon(cfg) with a site list; a cert_push for a domain has arrived.
InitPush ==
    /\ ServerInit
    /\ NoMatch
    /\ NoVerify
    /\ NoSync
    /\ NoFiles
    /\ NoDeploy
    /\ NoWatcher
    /\ NoBackoff
    /\ NoRun
    /\ NoHeartbeat
    /\ NoConfig
    /\ NoCatchUp
    /\ NewReloadDebouncer
    /\ pState = "idle"
    /\ pDomain \in {D_ab, D_b, D_a}
    /\ pSites \in SiteLists
    /\ pSite = NoSite
    /\ pWorkspace = "none"
    /\ pCopies = <<>>
    /\ ackSuccess = FALSE
    /\ ackMessage = ""

pushRest == <<serverVars, statusVars, sessionVars, matchVars, verifyVars, fileVars, deployVars, watchVars,
              backoffVars, runVars, heartVars, configVars, catchVars>>

\* sendCertAck(domain, success, message)
sendCertAck(success, message) ==
    /\ ackSuccess' = success
    /\ ackMessage' = message

\* handleCertPush(data): workspace is the outcome of MkdirAll and WriteFile,
\* fails the copies that fail in each deploy attempt.
handleCertPush(workspace, fails) ==
    /\ pState = "idle"
    /\ pState' = "done"
    /\ pWorkspace' = workspace
    /\ IF workspace # "written"
       THEN /\ sendCertAck(FALSE, workspace)
            /\ UNCHANGED <<pSite, pCopies, reloadVars>>
       ELSE LET site == findSiteConfig(pSites, pDomain)
                deploy == deployCertFilesWithRetry(fails, 1)
            IN  /\ pSite' = site
                /\ IF site = NoSite
                   THEN /\ sendCertAck(TRUE, "")
                        /\ UNCHANGED <<pCopies, reloadVars>>
                   ELSE /\ pCopies' = deploy.made
                        /\ IF deploy.err # "nil"
                           THEN /\ sendCertAck(FALSE, deploy.err)
                                /\ UNCHANGED reloadVars
                           ELSE /\ TriggerCall(site.reloadCmd)
                                /\ sendCertAck(TRUE, "")
    /\ UNCHANGED <<pDomain, pSites, pushRest>>

\* handleMessage, case cert_push.
HandleCertPush ==
    \E workspace \in {"written", "mkdir error", "write error"} :
        LET paths == findSiteConfig(pSites, pDomain).paths
        IN  \E fails \in [1..maxRetries -> SUBSET paths] :
                handleCertPush(workspace, fails)

SpecPush == InitPush /\ [][HandleCertPush]_vars

\* ------------------------------------------------------------------------
\* Properties
\* ------------------------------------------------------------------------

\* No hub operation is in progress: the hub loop is idle, the lock is free and
\* no read loop is inside HandleAuth, UpdateSubscription or its deferred
\* Unregister.
Quiescent ==
    /\ hubOp = Idle
    /\ mu = "free"
    /\ \A c \in Clients : pc[c] \in {"none", "read", "done"}

\* The patterns of the live connections' current pattern lists.
LivePatterns == UNION { Range(domains[c]) : c \in clients }

\* The subscription index the live set and the pattern lists call for.
ExpectedIndex ==
    [p \in LivePatterns |-> { c \in clients : p \in Range(domains[c]) }]

\* The connections that occur somewhere in the subscription index.
Indexed == UNION { subscriptions[p] : p \in DOMAIN subscriptions }

\* C1: BroadcastCert never sends on a mailbox that unregisterClient has
\* closed; the panic "send on closed channel" is unreachable.
C1_NoSendOnClosedMailbox == panicked # "send on closed channel"

\* C2: whenever no hub operation is in progress, the subscription index is
\* exactly the pairs (pattern, connection) with the connection live and the
\* pattern in its current list; no deregistered connection is indexed and no
\* pattern maps to an empty set.
C2_IndexExact == Quiescent => subscriptions = ExpectedIndex

\* C3: a mailbox is closed at most once; never when the connection was never
\* registered; and exactly once when the connection was registered, its read
\* loop has returned and the hub has applied what the read loop handed over.
C3_ClosedOnce ==
    /\ panicked # "close of closed channel"
    /\ \A c \in Clients :
        /\ closed[c] <= 1
        /\ (c \notin everRegistered => closed[c] = 0)
        /\ (c \in everRegistered /\ pc[c] = "done" /\ hubOp.c # c => closed[c] = 1)

\* C3 witness: a registered connection's session has ended and its mailbox
\* has been closed once.
C3_Witness ==
    \E c \in Clients :
        c \in everRegistered /\ pc[c] = "done" /\ hubOp = Idle /\ closed[c] = 1

\* C4: when the hub applies a deregistration of a connection that is not in
\* the live set, nothing changes: no panic, no mailbox close, same live set,
\* same subscription index.
C4_DeregisterNoop ==
    [][ (hubOp.op = "unregister" /\ hubOp.c \notin clients /\ hubOp' = Idle)
        => /\ clients' = clients
           /\ subscriptions' = subscriptions
           /\ closed' = closed
           /\ send' = send
           /\ panicked' = panicked ]_vars

\* C4 witness: a connection that was deregistered (mailbox closed) has been
\* deregistered a second time.
C4_Witness ==
    \E c \in noopFor : closed[c] = 1 /\ hubOp = Idle /\ panicked = "none"

\* C5: whenever no hub operation is in progress, GetSubscribers(domain) is
\* exactly the set of live connections with a pattern equal to the domain or
\* matching it as a wildcard.
C5_ResolveExact ==
    Quiescent =>
        \A d \in Domains :
            GetSubscribers(d) = { c \in clients : MatchAny(domains[c], d) }

\* D ends with "." followed by S.
EndsWithDot(D, S) ==
    \E k \in 0..Len(D) : SubSeq(D, k + 1, Len(D)) = <<".">> \o S

\* The match the specification calls for: P equals D, or P is *.S and D ends
\* with .S and is longer than .S.
SpecifiedMatch(P, D) ==
    \/ P = D
    \/ /\ Len(P) >= 2
       /\ SubSeq(P, 1, 2) = <<"*", ".">>
       /\ EndsWithDot(D, SubSeq(P, 3, Len(P)))
       /\ Len(D) > Len(SubSeq(P, 3, Len(P))) + 1

\* C6: the hub's match of a pattern against a domain is true iff the pattern
\* equals the domain, or the pattern is *.S and the domain ends with .S and
\* is longer than .S.
C6_MatchRule ==
    mResult \in {"match", "nomatch"} =>
        (mResult = "match" <=> SpecifiedMatch(mPattern, mDomain))

\* C6 witness: a wildcard pattern matched a domain it is not equal to, and
\* *.a was found not to match a.
C6_Witness ==
    /\ mResult = "match"
    /\ mPattern = <<"*", ".", "a">>
    /\ mDomain = <<"a", ".", "a">>

\* C7: every live connection whose pattern list contains * is among the
\* subscribers BroadcastCert delivers to, whatever the domain.
C7_StarReceivesAll == bpc = "sending" => bStars \subseteq bTargets

\* C8: each step of BroadcastCert's loop enqueues the push when the
\* subscriber's mailbox is below capacity (and counts it), and otherwise
\* leaves the mailbox unchanged and does not count it.
C8_EnqueueOrSkip ==
    [][ \A c \in Clients :
            (bpc = "sending" /\ c \in bSubs /\ c \notin bSubs')
            => IF Len(send[c]) < SendCap
               THEN send'[c] = Append(send[c], bDomain) /\ bSent' = bSent + 1
               ELSE send'[c] = send[c] /\ bSent' = bSent ]_vars

\* C9: a resolve includes every connection whose last UpdateSubscription
\* (in progress or finished) has the domain matched by both the old and the
\* new pattern list.
C9_UpdateAtomic == bpc = "sending" => bCommon \subseteq bTargets

\* C9 witness: a connection's pattern list was replaced by the wildcard
\* *.b, the old list matched a.b too, and a broadcast of a.b resolved the
\* connection.
C9_Witness ==
    /\ bpc = "sending"
    /\ bDomain = D_ab
    /\ \E c \in bCommon : c \in bTargets /\ domains[c] = <<P_wild>> /\ pc[c] = "read"

\* C10: a connection that never sent valid credentials is not live, not
\* indexed, not handed to the hub and not authenticated, and the reply to an
\* auth message with invalid credentials is auth_result with success=false.
C10_OnlyAccepted ==
    \A c \in Clients :
        /\ c \notin everValid =>
              /\ c \notin clients
              /\ c \notin Indexed
              /\ ~authenticated[c]
              /\ pc[c] # "register"
              /\ hubOp # [op |-> "register", c |-> c]
              /\ lastReply[c] # "auth_result_true"
        /\ lastAuth[c] = "invalid" => lastReply[c] = "auth_result_false"

\* C10 witness: a connection whose auth messages were all rejected got the
\* rejection and is still being served.
C10_Witness ==
    \E c \in Clients :
        /\ c \notin everValid
        /\ lastAuth[c] = "invalid"
        /\ lastReply[c] = "auth_result_false"
        /\ pc[c] = "read"

\* |x|
Abs(x) == IF x < 0 THEN 0 - x ELSE x

\* C12: VerifySignature succeeds iff |now - timestamp| <= tolerance and the
\* signature equals GenerateSignature(timestamp); a timestamp outside the
\* window is rejected as expired whatever the signature, and a timestamp in
\* the window with another signature is rejected as a signature failure.
C12_VerifyRule ==
    vResult \in {"ok", "expired", "badsig"} =>
        LET inWindow == Abs(NowT - vTimestamp) <= DefaultTimestampTolerance
            sigOk == vSignature = GenerateSignature(Password, vTimestamp)
        IN  /\ (vResult = "ok" <=> (inWindow /\ sigOk))
            /\ (~inWindow => vResult = "expired")
            /\ (inWindow /\ ~sigOk => vResult = "badsig")

\* C12 witness: a correctly signed timestamp exactly one tolerance in the
\* past was accepted.
C12_Witness ==
    /\ vResult = "ok"
    /\ vTimestamp = NowT - DefaultTimestampTolerance

\* C11: when handleMessage returns from a message that is not auth on an
\* unauthenticated connection (whose transport is open), the last message
\* written is the error with code 401, and nothing else of the session or
\* the hub has changed.
C11_UnauthenticatedGets401 ==
    [][ \A c \in Clients :
            (pc[c] = "handle" /\ pc'[c] = "read" /\ ~authenticated[c] /\ conn[c] = "open")
            => /\ lastReply'[c] = "error_401"
               /\ UNCHANGED <<hubVars, authenticated, domains, send, closed, conn, wpc>> ]_vars

\* A transport read or write of the connection has failed, or the peer has
\* closed it: the read loop has left its loop or the write loop has returned.
Failed(c) == pc[c] \in {"unregister", "done"} \/ wpc[c] = "done"

\* The session is over: transport closed, both loops returned, the
\* connection neither live nor in any pattern's subscriber set.
Terminated(c) ==
    /\ conn[c] = "closed"
    /\ pc[c] = "done"
    /\ wpc[c] = "done"
    /\ c \notin clients
    /\ c \notin Indexed

\* C13: once a connection's transport has failed or was closed by the peer,
\* the session eventually terminates: the transport is closed, the read loop
\* and the write loop have returned, and the connection is in neither the
\* live set nor any pattern's subscriber set.
C13_EventuallyTerminated == \A c \in Clients : Failed(c) ~> Terminated(c)

\* C14: the messages written to a connection's transport are in the order
\* in which they were issued: no message is written after one issued later.
C14_WrittenInIssueOrder ==
    \A c \in Clients :
        \A i, j \in 1..Len(wire[c]) : i < j => wire[c][i] < wire[c][j]

\* C15: at no time are two goroutines inside a write to the same
\* connection's transport.
C15_OneWriter == \A c \in Clients : Cardinality(inWrite[c]) <= 1

\* C15 witness: the write loop is inside a write while the read loop, with a
\* reply to send, waits for Client.mu.
C15_Witness ==
    \E c \in Clients :
        /\ inWrite[c] = {"writePump"}
        /\ cmu[c] = "writePump"
        /\ pc[c] = "sm_lock"

\* handleSyncRequest of a connection whose pattern list is just * has
\* compared every domain of the store and is about to return.
StarSyncDone(c) ==
    /\ pc[c] = "synced"
    /\ domains[c] = <<P_star>>

\* C16: for a connection subscribed to *, a sync request with timestamps T
\* pushes exactly the store domains D for which T has an entry and the
\* store's timestamp is strictly greater than T[D] (no push was dropped for
\* a full mailbox).
C16_SyncPushesTracked ==
    \A c \in Clients :
        (StarSyncDone(c) /\ syncDropped = {}) =>
            syncSent = { D \in DOMAIN store :
                            D \in DOMAIN syncT /\ store[D] > syncT[D] }

\* C16 as amended: for a connection subscribed to *, a sync request with
\* timestamps T pushes, or drops because the mailbox is full, exactly the
\* store domains D whose timestamp is strictly greater than T[D], where a
\* domain without an entry in T counts as timestamp 0.
C16_SyncPushesNewer ==
    \A c \in Clients :
        StarSyncDone(c) =>
            /\ syncSent \cup syncDropped =
                  { D \in DOMAIN store :
                        store[D] > (IF D \in DOMAIN syncT THEN syncT[D] ELSE 0) }
            /\ syncSent \cap syncDropped = {}

\* C16 witness: the sync of the example (client a.b: 1, b: 2; store a.b: 2,
\* b: 2, a: 1) has pushed a.b and also a, for which the client sent no
\* timestamp.
C16_Witness ==
    /\ StarSyncDone("c1")
    /\ store = (D_ab :> 2) @@ (D_b :> 2) @@ (D_a :> 1)
    /\ syncT = (D_ab :> 1) @@ (D_b :> 2)
    /\ syncSent = {D_ab, D_a}

\* C19: readCertFiles returns exactly the directory's bundle files, the
\* timestamp marker time.log among them; on cert.pem, key.pem,
\* fullchain.pem, time.log and readme.txt it returns the first four.
C19_BundleFiles ==
    fpc = "done" => fRead = { name \in fDir : BundleFile(name) }

\* C18: every first-level directory whose creation under baseDir the
\* watcher has seen after Start is on the watch list, so that later writes
\* to files in it are reported.
C18_NewDirWatched == \A d \in created : <<d>> \in watched

\* C17: a burst of create/write events for a domain, each less than the
\* debounce interval after the previous one, gets at most one change
\* callback; once the burst has been processed it got exactly one if the
\* directory held a bundle file; and the callback came no earlier than one
\* debounce interval after the burst's last event.
C17_OneCallbackPerBurst ==
    \A d \in WatchDomains :
        /\ burstCalls[d] <= 1
        /\ (d \in settled /\ \E f \in hadFiles[d] : BundleFile(f)) => burstCalls[d] = 1
        /\ callAt[d] # -1 => callAt[d] - burstLast[d] >= Debounce

\* The debouncer is at rest: no timer is armed and no execute call is in
\* progress.
ReloadAtRest ==
    /\ rTimer # "armed"
    /\ \A e \in Executors : epc[e] = "idle"

\* C20: a command triggered one or more times before the timer fires is
\* executed exactly once after it fires: no command is executed without a
\* Trigger call owing it, and when the timer has fired and every execute
\* call has returned, no triggered command is left unexecuted.
C20_ExecutedOnce ==
    /\ ~rExtra
    /\ ReloadAtRest => \A cmd \in ReloadCmds : debt[cmd] = 0

\* The goroutines that are executing a batch of reload commands.
Running == { e \in Executors : epc[e] = "run" }

\* C21: at most one goroutine of a debouncer is executing reload commands at
\* any time, whatever the interleaving of Trigger calls and timer callbacks.
C21_NoOverlap == Cardinality(Running) <= 1

\* C21 witness: a timer has fired while a batch is still running, with a
\* command pending for it.
C21_Witness ==
    /\ epc["e1"] = "run"
    /\ epc["e2"] = "start"
    /\ pendingCmds # {}

\* C22: a pending command whose timer is no longer armed is eventually taken
\* by an execute call (or a new timer is armed for it), and a command taken
\* by an execute call is eventually executed: no command stays pending
\* forever with neither an armed timer nor a batch that will run it.
C22_EventuallyExecuted ==
    \A cmd \in ReloadCmds :
        /\ (cmd \in pendingCmds /\ rTimer # "armed")
              ~> (cmd \notin pendingCmds \/ rTimer = "armed")
        /\ \A e \in Executors : (cmd \in ecmds[e]) ~> (cmd \notin ecmds[e])

\* min(base * 2^attempt, 5 minutes) over the integers, by doubling: the
\* value never leaves the range 1 .. 2 * maxBackoff, so no step overflows.
RECURSIVE CappedDouble(_, _)
CappedDouble(attempt, base) ==
    IF attempt = 0
    THEN IF Greater(base, maxBackoff) THEN maxBackoff ELSE base
    ELSE CHOOSE capped \in
            { IF Greater(twice, maxBackoff) THEN maxBackoff ELSE twice :
                 twice \in { Mul64(half, ToInt64(2)) :
                                half \in {CappedDouble(attempt - 1, base)} } } : TRUE

\* C23: for every attempt and every positive base, backoff(attempt, base)
\* equals min(base * 2^attempt, 5 minutes); it is positive and never above
\* the 5-minute ceiling.
C23_BackoffIsCappedPower ==
    kDelay # <<>> =>
        /\ kDelay = CappedDouble(kAttempt, kBase)
        /\ Greater(kDelay, ToInt64(0))
        /\ ~Greater(kDelay, maxBackoff)

\* C24: when a session that authenticated successfully has ended, the wait
\* before the next connection attempt is backoff(0): the attempt counter is
\* 0, however many failures preceded the session.
C24_AttemptResetAfterAuth == (dpc = "wait" /\ sessAuthed) => runAttempt = 0

\* C30: after the context is cancelled Run eventually returns, and so do
\* the heartbeat and handleConfigUpdates goroutines it started.
C30_RunReturnsAfterCancel ==
    cancelled ~> (dpc = "returned" /\ hbAlive = 0 /\ cuAlive = 0)

\* The tick came more than two heartbeat intervals after the last pong.
Miss(tick) == tick.at - tick.pong > 2 * Interval

\* The misses at the end of the ticks handled.
RECURSIVE TrailingMisses(_)
TrailingMisses(ticks) ==
    IF ticks = <<>> \/ ~Miss(ticks[Len(ticks)])
    THEN 0
    ELSE 1 + TrailingMisses(SubSeq(ticks, 1, Len(ticks) - 1))

\* C25: a tick is a miss iff it comes more than 2 x interval after the last
\* pong; the heartbeat closes the connection exactly when the last three
\* ticks were misses, and its missed count is the number of consecutive
\* misses, so a pong between ticks brings it back to zero.
C25_ClosedAtThreeMisses ==
    /\ hpc = "closed" <=> TrailingMisses(hTicks) = maxMissed
    /\ hpc \in {"run", "closed"} => missedPongs = TrailingMisses(hTicks)

\* C25 witness: the connection was force-closed although a pong had been
\* received after the heartbeat started.
C25_Witness ==
    /\ hpc = "closed"
    /\ lastPong > 0

\* A site matched the pushed domain and was deployed to.
SiteFound == pSite # NoSite

\* Some deploy attempt copied every configured target path.
Deployed == \E i \in 1..Len(pCopies) : pCopies[i] = {}

\* C26: the acknowledgement of a push carries success = true iff the bundle
\* was written into the workspace and, when a site matches, every configured
\* target path was copied; a failure is acknowledged with success = false
\* and a non-empty message.
C26_AckReportsDeploy ==
    pState = "done" =>
        /\ ackSuccess <=> (pWorkspace = "written" /\ (SiteFound => Deployed))
        /\ ~ackSuccess => ackMessage # ""

\* C27: handling a push adds a reload command and arms the timer only after
\* a successful deploy: if the workspace write failed, no site matches or a
\* target path could not be copied, no command is pending and no timer armed.
C27_ReloadOnlyAfterDeploy ==
    (pState = "done" /\ ~(pWorkspace = "written" /\ SiteFound /\ Deployed)) =>
        (pendingCmds = {} /\ rTimer # "armed")

\* The sites of the configuration whose domain is the pushed domain.
ExactSites == { i \in 1..Len(pSites) : pSites[i].domain = pDomain }

\* C28: the site looked up for a domain is the site with exactly that
\* domain whenever the configuration has one, whatever the order of the
\* sites; a wildcard site is used only when there is no exact site.
C28_ExactSiteFirst ==
    (pState = "done" /\ pWorkspace = "written" /\ ExactSites # {}) =>
        pSite.domain = pDomain

\* ------------------------------------------------------------------------
\* Configuration hot reload: UpdateConfig, handleConfigUpdates and the
\* subscribe list the server's session ends up with.

\* Connections Run makes, and UpdateConfig calls made.
MaxConns == 2
MaxUpdates == 2

\* make(chan *ConfigUpdate, 16)
ConfigUpdatesCap == 16

\* Subscribe lists a configuration file may hold.
SubscribeLists == { <<D_ab>>, <<P_wild>>, <<D_ab, P_wild>> }

\* stringSlicesEqual(a, b): same length and the same string at every index.
stringSlicesEqual(a, b) ==
    /\ Len(a) = Len(b)
    /\ \A i \in 1..Len(a) : a[i] = b[i]

\* A handleConfigUpdates goroutine that has not been started.
NoConsumer == [pc |-> "none", update |-> <<>>]

\* NewDaemon(cfg) with a subscribe list; Run(ctx) has reached its loop.
InitConfig ==
    /\ ServerInit
    /\ NoMatch
    /\ NoVerify
    /\ NoSync
    /\ NoFiles
    /\ NoDeploy
    /\ NoWatcher
    /\ NoReload
    /\ NoBackoff
    /\ NoRun
    /\ NoHeartbeat
    /\ NoPush
    /\ NoCatchUp
    /\ subscribe \in SubscribeLists
    /\ supplied = subscribe
    /\ configUpdates = <<>>
    /\ nUpdates = 0
    /\ gpc = "idle"
    /\ gconn = 0
    /\ gOpen = FALSE
    /\ authReq = <<>>
    /\ consumers = [k \in 1..MaxConns |-> NoConsumer]
    /\ gwire = <<>>
    /\ peerAuthed = FALSE
    /\ peerDomains = {}

configRest == <<serverVars, statusVars, sessionVars, matchVars, verifyVars, fileVars, deployVars, watchVars,
                reloadVars, backoffVars, runVars, heartVars, pushVars, catchVars>>

\* UpdateConfig(newSubscribe, newSites): a send that does not block; the
\* update is dropped when the channel is full.
UpdateConfig(newSubscribe) ==
    /\ gpc # "unused"
    /\ nUpdates < MaxUpdates
    /\ nUpdates' = nUpdates + 1
    /\ supplied' = newSubscribe
    /\ configUpdates' = IF Len(configUpdates) < ConfigUpdatesCap
                        THEN Append(configUpdates, newSubscribe)
                        ELSE configUpdates
    /\ UNCHANGED <<subscribe, gpc, gconn, gOpen, authReq, consumers, gwire,
                   peerAuthed, peerDomains, configRest>>

\* connectAndServe: DialContext succeeds, d.conn = conn; the server begins a
\* session for the connection, not authenticated and without patterns.
DialServer ==
    /\ gpc = "idle"
    /\ gconn < MaxConns
    /\ gconn' = gconn + 1
    /\ gOpen' = TRUE
    /\ gwire' = <<>>
    /\ peerAuthed' = FALSE
    /\ peerDomains' = {}
    /\ gpc' = "dialed"
    /\ UNCHANGED <<subscribe, configUpdates, supplied, nUpdates, authReq,
                   consumers, configRest>>

\* authenticate: the AuthRequest is built with Domains: d.config.Subscribe,
\* read without holding d.mu.
BuildAuthRequest ==
    /\ gpc = "dialed"
    /\ authReq' = subscribe
    /\ gpc' = "auth"
    /\ UNCHANGED <<subscribe, configUpdates, supplied, nUpdates, gconn, gOpen,
                   consumers, gwire, peerAuthed, peerDomains, configRest>>

\* authenticate: d.writeMessage(data). On success connectAndServe starts
\* go d.handleConfigUpdates(ctx) and enters readLoop; on a write error it
\* returns and the deferred conn.Close() runs.
WriteAuthRequest ==
    /\ gpc = "auth"
    /\ IF gOpen
       THEN /\ gwire' = Append(gwire, [type |-> "auth", domains |-> authReq])
            /\ consumers' = [consumers EXCEPT ![gconn] =
                                [pc |-> "idle", update |-> <<>>]]
            /\ gpc' = "serve"
       ELSE /\ gpc' = "idle"
            /\ UNCHANGED <<gwire, consumers>>
    /\ UNCHANGED <<subscribe, configUpdates, supplied, nUpdates, gconn, gOpen,
                   authReq, peerAuthed, peerDomains, configRest>>

\* The connection is lost: what was in flight is gone and the server's
\* readPump ends the session.
ConnectionLost ==
    /\ gOpen
    /\ gOpen' = FALSE
    /\ gwire' = <<>>
    /\ peerAuthed' = FALSE
    /\ peerDomains' = {}
    /\ UNCHANGED <<subscribe, configUpdates, supplied, nUpdates, gpc, gconn,
                   authReq, consumers, configRest>>

\* readLoop: ReadMessage fails on the lost connection, connectAndServe
\* returns and Run goes on to dial again.
ReadLoopFails ==
    /\ gpc = "serve"
    /\ ~gOpen
    /\ gpc' = "idle"
    /\ UNCHANGED <<subscribe, configUpdates, supplied, nUpdates, gconn, gOpen,
                   authReq, consumers, gwire, peerAuthed, peerDomains,
                   configRest>>

\* handleConfigUpdates: case update := <-d.configUpdates. The goroutine was
\* started with Run's ctx and goes on receiving after its connection ended.
ReceiveUpdate(k) ==
    /\ consumers[k].pc = "idle"
    /\ configUpdates # <<>>
    /\ consumers' = [consumers EXCEPT ![k] =
                        [pc |-> "apply", update |-> Head(configUpdates)]]
    /\ configUpdates' = Tail(configUpdates)
    /\ UNCHANGED <<subscribe, supplied, nUpdates, gpc, gconn, gOpen, authReq,
                   gwire, peerAuthed, peerDomains, configRest>>

\* applyConfigUpdate, under d.mu: oldSubscribe is read and d.config.Subscribe
\* set; a subscription is sent only when the two lists differ.
ApplyConfigUpdate(k) ==
    /\ consumers[k].pc = "apply"
    /\ subscribe' = consumers[k].update
    /\ consumers' = [consumers EXCEPT ![k].pc =
                        IF stringSlicesEqual(subscribe, consumers[k].update)
                        THEN "idle" ELSE "send"]
    /\ UNCHANGED <<configUpdates, supplied, nUpdates, gpc, gconn, gOpen,
                   authReq, gwire, peerAuthed, peerDomains, configRest>>

\* sendSubscription(update.NewSubscribe): nothing when d.conn is nil, else
\* d.writeMessage on d.conn, which fails on a closed connection.
SendSubscription(k) ==
    /\ consumers[k].pc = "send"
    /\ gwire' = IF gconn # 0 /\ gOpen
                THEN Append(gwire, [type |-> "subscribe",
                                    domains |-> consumers[k].update])
                ELSE gwire
    /\ consumers' = [consumers EXCEPT ![k] = [pc |-> "idle", update |-> <<>>]]
    /\ UNCHANGED <<subscribe, configUpdates, supplied, nUpdates, gpc, gconn,
                   gOpen, authReq, peerAuthed, peerDomains, configRest>>

\* The server's readPump handles the next message: HandleAuth stores the
\* domains and authenticates; a subscribe of a session that is not
\* authenticated is answered with error 401 and changes nothing.
PeerHandles ==
    /\ gwire # <<>>
    /\ gwire' = Tail(gwire)
    /\ IF Head(gwire).type = "auth"
       THEN /\ peerAuthed' = TRUE
            /\ peerDomains' = Range(Head(gwire).domains)
       ELSE /\ peerDomains' = IF peerAuthed THEN Range(Head(gwire).domains)
                              ELSE peerDomains
            /\ UNCHANGED peerAuthed
    /\ UNCHANGED <<subscribe, configUpdates, supplied, nUpdates, gpc, gconn,
                   gOpen, authReq, consumers, configRest>>

NextConfig ==
    \/ \E l \in SubscribeLists : UpdateConfig(l)
    \/ DialServer
    \/ BuildAuthRequest
    \/ WriteAuthRequest
    \/ ConnectionLost
    \/ ReadLoopFails
    \/ \E k \in 1..MaxConns : ReceiveUpdate(k)
    \/ \E k \in 1..MaxConns : ApplyConfigUpdate(k)
    \/ \E k \in 1..MaxConns : SendSubscription(k)
    \/ PeerHandles

SpecConfig == InitConfig /\ [][NextConfig]_vars

\* The connection is being served, every update supplied has been applied
\* and every message written has been handled by the server.
ConfigSettled ==
    /\ gpc = "serve"
    /\ gOpen
    /\ gwire = <<>>
    /\ configUpdates = <<>>
    /\ \A k \in 1..MaxConns : consumers[k].pc \in {"none", "idle"}

\* C29: once the daemon is connected and every supplied update and every
\* message written has been worked off, the pattern set of the server's
\* session is the subscribe list of the latest UpdateConfig call, whatever
\* disconnects and reconnects came in between.
C29_PatternsFollowConfig ==
    ConfigSettled => peerDomains = Range(supplied)

\* ------------------------------------------------------------------------
\* ConfigDrivenDeployer.Deploy

\* The files of a certificate bundle, in the order Deploy writes them.
Kinds == <<"cert", "key", "fullchain">>

\* Contents of a file: none, or one byte.
Contents == { <<>>, <<1>> }

\* A configured path of DeploymentConfig with the {domain} placeholder.
PathOf(kind) == <<"/ssl/", "{domain}", "/", kind>>

\* replacePath: strings.ReplaceAll(path, "{domain}", d.cfg.Domain), the path
\* itself when the domain is empty.
replacePath(cfg, path) ==
    IF cfg.domain = ""
    THEN path
    ELSE [i \in 1..Len(path) |-> IF path[i] = "{domain}" THEN cfg.domain ELSE path[i]]

\* The error value nil.
NilError == <<"nil">>

\* A variant that takes every content for non-empty.
NeverEmptyContent(content) == FALSE

\* len(content) == 0
IsEmptyContent(content) == Len(content) = 0

\* writeFile(path, content): the error returned; kind names the file for
\* the filesystem's refusals.
writeFile(kind, path, content, fails) ==
    IF path = <<>> THEN <<"write failed", "path empty">>
    ELSE IF IsEmptyContent(content) THEN <<"write failed", "content empty">>
    ELSE IF kind \in fails THEN <<"write failed", "io">>
    ELSE NilError

\* Deploy, not dry-run, from the i-th file on: the error returned and the
\* files written.
RECURSIVE deployFrom(_, _, _, _, _)
deployFrom(i, cfg, certs, fails, files) ==
    IF i > Len(Kinds)
    THEN [err |-> NilError, files |-> files]
    ELSE LET kind == Kinds[i]
             path == replacePath(cfg, cfg.paths[kind])
         IN  IF path = <<>>
             THEN deployFrom(i + 1, cfg, certs, fails, files)
             ELSE IF IsEmptyContent(certs[kind])
             THEN [err |-> <<"content empty", kind>>, files |-> files]
             ELSE IF writeFile(kind, path, certs[kind], fails) # NilError
             THEN [err |-> writeFile(kind, path, certs[kind], fails),
                   files |-> files]
             ELSE deployFrom(i + 1, cfg, certs, fails,
                             (path :> certs[kind]) @@ files)

\* NewDeployer(cfg) has returned a ConfigDrivenDeployer: some path is
\* configured. Deploy is about to be called.
InitDeploy ==
    /\ ServerInit
    /\ NoMatch
    /\ NoVerify
    /\ NoSync
    /\ NoFiles
    /\ NoWatcher
    /\ NoReload
    /\ NoDaemon
    /\ depCfg \in [domain : {"", "a.b"},
                   paths : [Range(Kinds) -> {<<>>} \cup { PathOf(k) : k \in Range(Kinds) }],
                   reloadCmd : {"", "nginx"},
                   skipReload : BOOLEAN]
    /\ \A k \in Range(Kinds) : depCfg.paths[k] \in {<<>>, PathOf(k)}
    /\ \E k \in Range(Kinds) : depCfg.paths[k] # <<>>
    /\ depCerts \in [Range(Kinds) -> Contents]
    /\ depDryRun \in BOOLEAN
    /\ depFails \in SUBSET (Range(Kinds) \cup {"reload"})
    /\ depErr = <<"unset">>
    /\ depFiles = <<>>
    /\ depReloads = 0

\* Deploy(certs, dryRun)
Deploy ==
    /\ depErr = <<"unset">>
    /\ IF depDryRun
       THEN /\ depErr' = NilError
            /\ UNCHANGED <<depFiles, depReloads>>
       ELSE LET wrote == deployFrom(1, depCfg, depCerts, depFails, <<>>)
                reloads == /\ wrote.err = NilError
                           /\ depCfg.reloadCmd # ""
                           /\ ~depCfg.skipReload
            IN  /\ depFiles' = wrote.files
                /\ depReloads' = IF reloads THEN 1 ELSE 0
                /\ depErr' = IF reloads /\ "reload" \in depFails
                             THEN <<"reload failed">>
                             ELSE wrote.err
    /\ UNCHANGED <<depCfg, depCerts, depDryRun, depFails, serverVars, statusVars,
                   sessionVars,
                   matchVars, verifyVars, fileVars, watchVars, reloadVars,
                   daemonVars>>

SpecDeploy == InitDeploy /\ [][Deploy]_vars

\* The configured files whose content in the bundle is empty.
EmptyTargets ==
    { k \in Range(Kinds) : depCfg.paths[k] # <<>> /\ depCerts[k] = <<>> }

\* C32: a Deploy that is not a dry run returns an error whenever a
\* configured target path has empty content, and no target path is ever
\* written with empty content.
C32_EmptyContentIsError ==
    (depErr # <<"unset">> /\ ~depDryRun) =>
        /\ EmptyTargets # {} => depErr # NilError
        /\ \A path \in DOMAIN depFiles : depFiles[path] # <<>>

\* C32 witness: the certificate was written, then the empty key content
\* stopped the deploy with an error.
C32_Witness ==
    /\ depErr = <<"content empty", "key">>
    /\ ~depDryRun
    /\ DOMAIN depFiles = { replacePath(depCfg, PathOf("cert")) }

\* ------------------------------------------------------------------------
\* Sync requests of a connection subscribed to one exact domain.

\* handleSyncRequest runs for connection c, subscribed to a.b only.
ExactSyncStep(c) ==
    /\ pc[c] # "synced"
    /\ pc'[c] = "synced"
    /\ domains[c] = <<D_ab>>

\* The store's timestamp for a.b is strictly greater than the timestamp of
\* the request being handled, 0 when the request has none for a.b.
StoreNewer == store[D_ab] > (IF D_ab \in DOMAIN syncT' THEN syncT'[D_ab] ELSE 0)

\* C33: for a connection subscribed to the exact domain D, a sync request
\* puts the push of D into the connection's mailbox iff the store's
\* timestamp for D is strictly greater than the client's (0 when the client
\* supplied none); otherwise nothing is pushed; and no error message or
\* other reply is sent in either case.
C33_ExactSyncPushesIffNewer ==
    [][\A c \in Clients :
          ExactSyncStep(c) =>
              /\ syncSent' = IF StoreNewer THEN {D_ab} ELSE {}
              /\ send'[c] = IF StoreNewer THEN Append(send[c], D_ab) ELSE send[c]
              /\ lastReply' = lastReply]_vars

\* C33 as amended: the push of D is attempted iff the store's timestamp is
\* strictly greater than the client's: it is put into the mailbox when the
\* mailbox has room and dropped when the mailbox is full; when the
\* timestamps are equal, or the store has no timestamp for D, nothing is
\* pushed or dropped; no error message or other reply is sent in any case.
C33_ExactSyncAttemptsIffNewer ==
    [][\A c \in Clients :
          ExactSyncStep(c) =>
              LET room == Len(send[c]) < SendCap
              IN  /\ syncSent' = IF StoreNewer /\ room THEN {D_ab} ELSE {}
                  /\ syncDropped' = IF StoreNewer /\ ~room THEN {D_ab} ELSE {}
                  /\ send'[c] = IF StoreNewer /\ room
                                THEN Append(send[c], D_ab) ELSE send[c]
                  /\ lastReply' = lastReply]_vars

\* C33 witness: a.b was pushed to a connection subscribed to a.b only, whose
\* request carried an older timestamp for a.b.
C33_Witness ==
    /\ pc["c1"] = "synced"
    /\ domains["c1"] = <<D_ab>>
    /\ D_ab \in DOMAIN syncT
    /\ store[D_ab] > syncT[D_ab]
    /\ syncSent = {D_ab}

\* ------------------------------------------------------------------------
\* Sync requests of a connection whose pattern list names a domain twice.

\* Pattern lists that hold * together with an exact domain, or the same
\* domain twice; HandleAuth stores req.Domains as it comes.
OverlappingLists == { <<P_star, D_ab>>, <<D_ab, D_ab>> }

\* One connection whose peer subscribes with an overlapping list, sends sync
\* requests and reads what it is sent.
NextSyncOverlap ==
    /\ panicked = "none"
    /\ \/ HubApply
       \/ ServeWs("c1")
       \/ \E doms \in OverlappingLists : HandleAuth("c1", Password, NowT, doms)
       \/ Register("c1")
       \/ ReadError("c1")
       \/ Unregister("c1")
       \/ WriteMessage("c1")
       \/ \E T \in ClientTimestamps : handleSyncRequest("c1", T)
       \/ SyncReturn("c1")

SpecSyncOverlap == InitSync /\ [][NextSyncOverlap]_vars

\* What the step has appended to the mailbox of connection c.
Enqueued(c) == SubSeq(send'[c], Len(send[c]) + 1, Len(send'[c]))

\* C39: handling one sync request puts at most one push of each store
\* domain into the requesting connection's mailbox, whatever the
\* connection's pattern list is.
C39_SyncPushesOnce ==
    [][\A c \in Clients :
          (pc[c] # "synced" /\ pc'[c] = "synced") =>
              \A i, j \in 1..Len(Enqueued(c)) :
                  i # j => Enqueued(c)[i] # Enqueued(c)[j]]_vars

\* C34: at any time at most one heartbeat loop is running for a daemon: the
\* loop started for a connection has returned before a later connection
\* starts its own, so no loop of an earlier connection is left to ping or
\* close a later one.
C34_OneHeartbeat == hbAlive <= 1

\* The daemon is in its active phase: readLoop is running, so pushes are
\* handled, and a heartbeat loop is running.
Active == dpc \in {"select", "reading"} /\ hbAlive > 0

\* C35: the daemon is active only after it has received auth_result with
\* success = true on the connection.
C35_ActiveOnlyAuthenticated == Active => sessAuthed

\* ------------------------------------------------------------------------
\* Catching up after a reconnect: a daemon subscribed to one domain, the
\* store's bundle of that domain, and the pushes between them.

\* Changes of the domain's bundle the server finalizes.
MaxFinals == 4

\* The server and NewDaemon(cfg): store and workspace hold the same bundle,
\* the daemon is not connected.
InitCatchUp ==
    /\ ServerInit
    /\ NoMatch
    /\ NoVerify
    /\ NoSync
    /\ NoFiles
    /\ NoDeploy
    /\ NoWatcher
    /\ NoReload
    /\ NoBackoff
    /\ NoRun
    /\ NoHeartbeat
    /\ NoPush
    /\ NoConfig
    /\ cStamp = 0
    /\ cLocal = 0
    /\ cLink = "down"
    /\ cInbox = <<>>
    /\ cMissed = 0

catchRest == <<serverVars, statusVars, sessionVars, matchVars, verifyVars, fileVars, deployVars,
               watchVars, reloadVars, backoffVars, runVars, heartVars, pushVars,
               configVars>>

\* The watcher's change callback: the bundle has a new timestamp and
\* BroadcastCert enqueues it for the subscribers registered at this moment,
\* skipping a full mailbox.
FinalizeChange ==
    /\ cStamp < MaxFinals
    /\ cStamp' = cStamp + 1
    /\ IF cLink = "up"
       THEN /\ cInbox' = IF Len(cInbox) < SendCap
                         THEN Append(cInbox, cStamp + 1) ELSE cInbox
            /\ UNCHANGED cMissed
       ELSE /\ cMissed' = cStamp + 1
            /\ UNCHANGED cInbox
    /\ UNCHANGED <<cLocal, cLink, catchRest>>

\* connectAndServe: dial, authenticate writes the auth message, heartbeat and
\* handleConfigUpdates are started and readLoop is entered. Nothing else is
\* written to the connection.
ConnectAndServe ==
    /\ cLink = "down"
    /\ cLink' = "authing"
    /\ UNCHANGED <<cStamp, cLocal, cInbox, cMissed, catchRest>>

\* The server's HandleAuth: the session is authenticated and registered with
\* the hub; registerClient only indexes its patterns.
PeerRegisters ==
    /\ cLink = "authing"
    /\ cLink' = "up"
    /\ UNCHANGED <<cStamp, cLocal, cInbox, cMissed, catchRest>>

\* readLoop reads a cert_push and handleCertPush writes the bundle into the
\* workspace.
ReceivePush ==
    /\ cLink = "up"
    /\ cInbox # <<>>
    /\ cLocal' = Head(cInbox)
    /\ cInbox' = Tail(cInbox)
    /\ UNCHANGED <<cStamp, cLink, cMissed, catchRest>>

\* The connection is lost; the pushes not yet delivered go with it.
LinkLost ==
    /\ cLink \in {"authing", "up"}
    /\ cLink' = "down"
    /\ cInbox' = <<>>
    /\ UNCHANGED <<cStamp, cLocal, cMissed, catchRest>>

NextCatchUp ==
    \/ FinalizeChange
    \/ ConnectAndServe
    \/ PeerRegisters
    \/ ReceivePush
    \/ LinkLost

SpecCatchUp == InitCatchUp /\ [][NextCatchUp]_vars

\* The daemon keeps reconnecting, the server handles the auth message and
\* the daemon's read loop handles what arrives; when certificates change and
\* when the connection is lost is up to the environment.
FairCatchUp ==
    /\ WF_vars(ConnectAndServe)
    /\ WF_vars(PeerRegisters)
    /\ WF_vars(ReceivePush)

SpecCatchUpLive == InitCatchUp /\ [][NextCatchUp]_vars /\ FairCatchUp

\* C36: a change finalized while the daemon had no session is delivered
\* once the daemon is connected and authenticated again: its workspace
\* gets that bundle or a newer one, unless the connection is lost first.
C36_CatchUpAfterReconnect ==
    (cLink = "up" /\ cLocal < cMissed) ~> (cLocal >= cMissed \/ cLink # "up")

\* ------------------------------------------------------------------------
\* Wildcard patterns and domains of several labels.

\* The labels domain names are made of.
Labels == {"a", "b"}

\* Domain names of one, two and three labels: b, a.b, a.a.b, ...
LabelDomains ==
    { <<x>> : x \in Labels }
    \cup { <<x, ".", y>> : x \in Labels, y \in Labels }
    \cup { <<x, ".", y, ".", z>> : x \in Labels, y \in Labels, z \in Labels }

\* The patterns of a subscription: exact domain names, and *.S for a domain
\* name S.
LabelPatterns == LabelDomains \cup { <<"*", ".">> \o S : S \in LabelDomains }

\* A hub whose only subscription is one pattern, asked for the subscribers
\* of one domain.
InitMatchLabels ==
    /\ ServerInit
    /\ NoVerify
    /\ NoSync
    /\ NoFiles
    /\ NoDeploy
    /\ NoWatcher
    /\ NoReload
    /\ NoDaemon
    /\ mPattern \in LabelPatterns
    /\ mDomain \in LabelDomains
    /\ mResult = "unset"

SpecMatchLabels == InitMatchLabels /\ [][Match]_vars

\* domain is S with exactly one more label in front.
OneLabelDeeper(domain, S) ==
    /\ Len(domain) = Len(S) + 2
    /\ SubSeq(domain, 3, Len(domain)) = S

\* C37: a connection subscribed only to the wildcard pattern *.S is
\* resolved for a domain iff the domain is exactly one label deeper than S:
\* *.b matches a.b and does not match a.a.b.
C37_WildcardOneLabel ==
    (mResult # "unset" /\ Len(mPattern) > 2 /\ mPattern[1] = "*") =>
        (mResult = "match" <=>
            OneLabelDeeper(mDomain, SubSeq(mPattern, 3, Len(mPattern))))

\* C38: no recorded create/write event is lost by the watcher. An entry
\* of pendingDomains either stays pending (possibly refreshed by a later
\* event of the domain), or leaves at a tick at least one debounce interval
\* after the recorded event, and at that tick the domain is finalized
\* (never dropped by the "finalized within the debounce interval" check),
\* its files are read and the change callback is invoked iff the directory
\* holds a bundle file.
C38_NoChangeLost ==
    [][\A d \in DOMAIN pendingDomains :
          \/ /\ d \in DOMAIN pendingDomains'
             /\ pendingDomains'[d] >= pendingDomains[d]
          \/ /\ d \notin DOMAIN pendingDomains'
             /\ clock' - pendingDomains[d] >= Debounce
             /\ d \in DOMAIN lastUpdate'
             /\ lastUpdate'[d] = clock'
             /\ d \in WatchDomains =>
                   ((callAt'[d] = clock') <=>
                       (d \in DOMAIN dirs /\ \E f \in dirs[d] : BundleFile(f)))
      ]_vars

\* ------------------------------------------------------------------------
\* Specification of the hub under load: two connections authenticate,
\* register, change their subscription and disconnect while the watcher
\* callback broadcasts and the status endpoint queries the hub, with the
\* scheduling the runtime gives: the hub loop's select takes a blocked
\* sender of either channel, and a goroutine waiting for h.mu gets it
\* ------------------------------------------------------------------------

\* GetClientStatus: the live connections with their pattern lists, read
\* under h.mu.RLock()
GetClientStatus ==
    /\ RLockFree
    /\ statusOut' = [c \in clients |-> domains[c]]
    /\ UNCHANGED <<serverVars, sessionVars, matchVars, verifyVars, fileVars,
                   deployVars, watchVars, reloadVars, daemonVars>>

NextHubLive ==
    /\ panicked = "none"
    /\ \/ HubApply
       \/ ReadPumps(Clients, {<<D_ab>>}, {Password}, {NowT})
       \/ Broadcasts
       \/ GetClientStatus

\* The process has not died of a panic: its goroutines run.
ProcessAlive == panicked = "none"

FairHub ==
    /\ SF_vars(ProcessAlive /\ HubApply)
    /\ \A c \in Clients :
          /\ SF_vars(ProcessAlive /\ Register(c))
          /\ SF_vars(ProcessAlive /\ Unregister(c))
          /\ WF_vars(ProcessAlive /\ UpdateSubscriptionEnd(c))

SpecHubLive == Init /\ [][NextHubLive]_vars /\ FairHub

\* C40: the hub is deadlock-free. Every call of Register and every call of
\* Unregister, blocked on the hub's unbuffered channel, eventually completes,
\* whatever BroadcastCert, GetSubscribers, GetClientStatus and
\* UpdateSubscription do meanwhile.
C40_HubCallsComplete ==
    \A c \in Clients :
        /\ (pc[c] = "register") ~> (pc[c] # "register")
        /\ (pc[c] = "unregister") ~> (pc[c] # "unregister")

====
